---- MODULE Spec2Model ----
(***************************************************************************)
(* State-machine model of the VKNP tensor runtime: the buffer pools and    *)
(* the memory manager (memory/src), the kernel cache (execution/src/       *)
(* kernel_manager.rs) and the operation registry (ops/src).                *)
(*                                                                         *)
(* The device adapter (wgpu, behind vknp_core::GpuContext) is modelled at  *)
(* its interface: a buffer is a byte sequence plus a mapped flag, and a    *)
(* command submitted to the queue takes effect in submission order (every  *)
(* host read of a buffer is preceded by a blocking device poll).  A panic  *)
(* (unwrap on None, expect) unwinds the calling thread: the component is   *)
(* left as it was at the panic and is not used again.                      *)
(***************************************************************************)
EXTENDS Integers, Sequences, FiniteSets, TLC

(***************************************************************************)
(* Bounds of the model.                                                    *)
(***************************************************************************)
\* allocate_raw calls on the main pool
MaxAllocs == 2
\* elements (32-bit words) in a payload or a buffer
MaxElems == 2
\* write_to_buffer calls, and download_raw calls
MaxTransfers == 2
\* KernelManager::get calls
MaxGets == 2
\* KernelManager::get calls made by threads that call it at the same time
MaxRaceGets == 3
\* bits of the id counter of the pool whose methods are called directly, and
\* the reference count up to which inc_ref is called
IdBits == 2
MaxRefs == 2
\* bits of the unsigned words of the dispatch arithmetic (u32 in the source:
\* the model checker's integers end below 2^31), and the rank of its shapes
WordBits == 8
MaxWordRank == 3
\* threads that call the KernelManager
NumThreads == 2
\* tensors passed to check_and_prepare as inputs, and as outputs
MaxInputs == 3
MaxOutputs == 2
\* tensors the caller of the engine creates, and run_prepared calls it makes
MaxTensors == 3
MaxRuns == 1
\* axes of a shape passed to the tensor layer, and elements along an axis
MaxRank == 8
MaxDim == 2
\* calls each thread makes on the shared MemoryManager
MaxThreadCalls == 2
\* axes of an operand of the add shader, and the largest stride of a view
MaxShaderRank == 3
MaxStride == 2

VARIABLES
    main_pool,          \* MemoryManager.main_pool
    staging_upload,     \* MemoryManager.staging_upload
    staging_download,   \* MemoryManager.staging_download
    pc,                 \* position of the thread driving the MemoryManager
    call,               \* the MemoryManager call in progress (its locals)
    ret,                \* what the last finished MemoryManager call returned
    allocated,          \* history: ids returned by allocate_raw
    released,           \* history: allocated ids on which release was called
    minted,             \* history: per pool, the ids get_buffer returned, in order
    written,            \* history: per main id, the last payload uploaded to it
    transfers,          \* history: write_to_buffer / download_raw calls made
    cache,              \* KernelManager.cache
    kpc,                \* per thread: its position in KernelManager::get
    kcall,              \* per thread: the arguments and locals of its get call
    next_obj,           \* the next Arc allocation (identity of a pipeline or layout)
    compiles,           \* history: create_compute_pipeline calls made
    klog,               \* history: what each finished get was asked and returned
    reg_map,            \* OpRegistry.map
    rret,               \* the last check_and_prepare call and what it returned
    registered,         \* history: per name, the operation last registered under it
    gret,               \* the last OpRegistry::get call and what it returned
    handles,            \* the Tensor handles the caller holds, in creation order
    submitted,          \* the dispatches submitted to the device queue, in order
    epc,                \* the engine's caller: "idle", or "panicked"
    eret,               \* the last run_prepared call and how it ended
    runs,               \* run_prepared calls made
    tids,               \* per thread sharing the MemoryManager: its calls and results
    fcall,              \* the last call of a pure function: arguments and result
    bpool,              \* a BufferPool whose methods are called directly
    bret,               \* the last call on that pool and what it returned
    bhist               \* history: per id minted there, its size and ref calls

mem_vars == <<main_pool, staging_upload, staging_download, pc, call, ret,
              allocated, released, minted, written, transfers>>

kernel_vars == <<cache, kpc, kcall, next_obj, compiles, klog>>

reg_vars == <<reg_map, rret, registered, gret>>

engine_vars == <<handles, submitted, epc, eret, runs>>

pool_vars == <<bpool, bret, bhist>>

call_vars == <<tids, fcall, pool_vars>>

vars == <<mem_vars, kernel_vars, reg_vars, engine_vars, call_vars>>

not_mem == <<kernel_vars, reg_vars, engine_vars, call_vars>>
not_kernel == <<mem_vars, reg_vars, engine_vars, call_vars>>
not_reg == <<mem_vars, kernel_vars, engine_vars, call_vars>>

(***************************************************************************)
(* core-types: element types                                               *)
(***************************************************************************)
DataType == {"F32", "I32", "U32"}

size_in_bytes(dt) == CASE dt = "F32" -> 4 [] dt = "I32" -> 4 [] dt = "U32" -> 4

\* The i-th element of the payloads the callers upload, per element type.  An
\* f32 is written as its IEEE-754 bit pattern (1065353216 is 1.0): bytemuck
\* casts move bits, never values.  The elements of a payload differ from one
\* another, and from those of the other types.  The model checker's integers
\* are 32-bit signed, so every value stays below 2^31: the same four bytes can
\* then be read back as any of the three types.
Element(dt, i) ==
    CASE dt = "F32" -> 1065353216 + 65536 * i
      [] dt = "I32" -> 7 * i
      [] dt = "U32" -> 1 + 257 * (i - 1)

\* A byte of a buffer the device has not written yet (create_buffer hands out
\* an uninitialised buffer).
UninitByte == 0 - 1

\* What an element decodes to when one of its bytes was never written.
UnspecElem == 0 - 2147483647

(***************************************************************************)
(* bytemuck::cast_slice, both directions, native (little-endian) layout    *)
(***************************************************************************)
\* the four bytes of a 32-bit element, two's complement for a negative i32
\* (\div rounds down and % is non-negative)
WordBytes(v) ==
    << v % 256, (v \div 256) % 256, (v \div 65536) % 256, (v \div 16777216) % 256 >>

\* the element four bytes stand for
BytesWord(dt, b) ==
    IF \E i \in 1..4 : b[i] = UninitByte
    THEN UnspecElem
    ELSE b[1] + 256 * b[2] + 65536 * b[3]
         + 16777216 * (IF dt = "I32" /\ b[4] >= 128 THEN b[4] - 256 ELSE b[4])

\* &[T] -> &[u8]: byte j of element i at index 4 * i + j
cast_slice(dt, data) ==
    [ k \in 1..(Len(data) * size_in_bytes(dt)) |->
        WordBytes(data[((k - 1) \div 4) + 1])[((k - 1) % 4) + 1] ]

\* &[u8] -> &[T]; the byte length is a multiple of the element size
cast_slice_u8(dt, bytes) ==
    [ i \in 1..(Len(bytes) \div size_in_bytes(dt)) |->
        BytesWord(dt, SubSeq(bytes, 4 * (i - 1) + 1, 4 * i)) ]

\* the payloads: one of every length and element type
Payload(dt) ==
    { [ i \in 1..n |-> Element(dt, i) ] : n \in 1..MaxElems }

(***************************************************************************)
(* vknp_core::GpuContext: buffers                                          *)
(***************************************************************************)
\* create_buffer: size bytes, not mapped
create_buffer(size) ==
    [ size |-> size, data |-> [i \in 1..size |-> UninitByte], mapped |-> FALSE ]

\* (mutant) the copy is given the element count where the byte count belongs
copy_buffer_to_buffer_elems(src, dst, size) ==
    [ dst EXCEPT !.data =
        [ i \in 1..dst.size |-> IF i <= size \div 4 THEN src.data[i] ELSE dst.data[i] ] ]

\* enc.copy_buffer_to_buffer(src, 0, dst, 0, size), submitted: the new dst
copy_buffer_to_buffer(src, dst, size) ==
    [ dst EXCEPT !.data =
        [ i \in 1..dst.size |-> IF i <= size THEN src.data[i] ELSE dst.data[i] ] ]

\* a copy the device validates: both ranges in bounds, neither buffer mapped
copy_valid(src, dst, size) ==
    /\ size <= src.size
    /\ size <= dst.size
    /\ ~src.mapped
    /\ ~dst.mapped

(***************************************************************************)
(* memory::pool::BufferPool                                                *)
(***************************************************************************)
\* next_id is a u64 that wraps (wrapping_add).  The model checker's integers
\* are 32-bit signed, so the model's counter wraps at 2^30 instead.
IdModulus == 2^30

\* BufferPool::new
BufferPool_new == [ next_id |-> 0, entries |-> << >> ]

\* the id get_buffer returns
get_buffer_id(pool) == pool.next_id

\* (mutant) get_buffer forgets to advance next_id
get_buffer_same_id(pool, size_bytes) ==
    [ next_id |-> pool.next_id,
      entries |-> (pool.next_id :>
                     [ buffer |-> create_buffer(size_bytes),
                       size |-> size_bytes,
                       ref_count |-> 1 ]) @@ pool.entries ]

\* (mutant) the insert replaces the map: the entries made before are lost
get_buffer_lost_entries(pool, size_bytes) ==
    [ next_id |-> (pool.next_id + 1) % IdModulus,
      entries |-> (pool.next_id :>
                     [ buffer |-> create_buffer(size_bytes),
                       size |-> size_bytes,
                       ref_count |-> 1 ]) ]

\* BufferPool::get_buffer with the id counter wrapping at the modulus: the
\* entry is inserted under the counter's value, replacing an entry already
\* there (HashMap::insert)
get_buffer_wrapping(pool, size_bytes, modulus) ==
    [ next_id |-> (pool.next_id + 1) % modulus,
      entries |-> (pool.next_id :>
                     [ buffer |-> create_buffer(size_bytes),
                       size |-> size_bytes,
                       ref_count |-> 1 ]) @@ pool.entries ]

\* BufferPool::get_buffer: the pool after the call
get_buffer(pool, size_bytes) == get_buffer_wrapping(pool, size_bytes, IdModulus)

\* (mutant) inc_ref leaves the count as it is
inc_ref_no_count(pool, id) ==
    IF id \in DOMAIN pool.entries
    THEN [ pool |-> pool, ok |-> TRUE ]
    ELSE [ pool |-> pool, ok |-> FALSE ]

\* BufferPool::inc_ref: the pool after the call, and whether it returned Ok
inc_ref(pool, id) ==
    IF id \in DOMAIN pool.entries
    THEN [ pool |-> [ pool EXCEPT !.entries[id].ref_count = @ + 1 ], ok |-> TRUE ]
    ELSE [ pool |-> pool, ok |-> FALSE ]

\* (mutant) dec_ref on an id that is not in the map resets the counter
dec_ref_reset(pool, id) ==
    IF id \in DOMAIN pool.entries
    THEN IF pool.entries[id].ref_count <= 1
         THEN [ pool |-> [ pool EXCEPT !.entries =
                             [ k \in (DOMAIN pool.entries) \ {id} |-> pool.entries[k] ] ],
                ok |-> pool.entries[id].ref_count = 1 ]
         ELSE [ pool |-> [ pool EXCEPT !.entries[id].ref_count = @ - 1 ], ok |-> TRUE ]
    ELSE [ pool |-> [ pool EXCEPT !.next_id = 0 ], ok |-> FALSE ]

\* BufferPool::dec_ref: the pool after the call, and whether it returned Ok.
\* An entry found with count 0 is removed and the call returns Err; otherwise
\* the count goes down by one and the entry is removed when it reaches 0.
dec_ref(pool, id) ==
    IF id \in DOMAIN pool.entries
    THEN IF pool.entries[id].ref_count = 0
         THEN [ pool |-> [ pool EXCEPT !.entries =
                             [ k \in (DOMAIN pool.entries) \ {id} |-> pool.entries[k] ] ],
                ok |-> FALSE ]
         ELSE IF pool.entries[id].ref_count - 1 = 0
         THEN [ pool |-> [ pool EXCEPT !.entries =
                             [ k \in (DOMAIN pool.entries) \ {id} |-> pool.entries[k] ] ],
                ok |-> TRUE ]
         ELSE [ pool |-> [ pool EXCEPT !.entries[id].ref_count = @ - 1 ], ok |-> TRUE ]
    ELSE [ pool |-> pool, ok |-> FALSE ]

None == [ some |-> FALSE ]
Some(x) == [ some |-> TRUE, val |-> x ]

\* BufferPool::get
get(pool, id) ==
    IF id \in DOMAIN pool.entries THEN Some(pool.entries[id].buffer) ELSE None

\* BufferPool::get_buffer_size
get_buffer_size(pool, id) ==
    IF id \in DOMAIN pool.entries THEN Some(pool.entries[id].size) ELSE None

\* (mutant) release_buffer clears the whole map
release_buffer_clear(pool, id) ==
    [ pool EXCEPT !.entries = << >> ]

\* (mutant) release_buffer leaves the entry in the map
release_buffer_keep(pool, id) ==
    pool

\* (mutant) release_buffer hands the id back to the counter
release_buffer_recycle(pool, id) ==
    [ pool EXCEPT !.entries = [ k \in (DOMAIN pool.entries) \ {id} |-> pool.entries[k] ],
                  !.next_id = id ]

\* BufferPool::release_buffer: the pool after the call
release_buffer(pool, id) ==
    [ pool EXCEPT !.entries =
        [ k \in (DOMAIN pool.entries) \ {id} |-> pool.entries[k] ] ]

\* the pool with the buffer of a live entry replaced (a device write to it)
with_buffer(pool, id, buf) ==
    [ pool EXCEPT !.entries[id].buffer = buf ]

(***************************************************************************)
(* memory::MemoryManager                                                   *)
(***************************************************************************)
\* MemoryManager::get_ref
get_ref(id) == get(main_pool, id)

NoCall ==
    [ op |-> "none", id |-> 0, dtype |-> "U32", data |-> << >>, bytes |-> << >>,
      sid |-> 0,
      dead |-> FALSE,
      before |-> << << >>, << >>, << >> >> ]

\* what a call returned: the call (op and its arguments) and the outcome
Ok(op, arg, v) == [ op |-> op, arg |-> arg, kind |-> "Ok", val |-> v ]
Panic(op, arg, msg) == [ op |-> op, arg |-> arg, kind |-> "Panic", val |-> msg ]

\* the entries of the three pools, as the caller can observe them
PoolEntries ==
    << main_pool.entries, staging_upload.entries, staging_download.entries >>

\* ids a caller passes: every id the main pool can have minted, and one more
CallerIds == 0..MaxAllocs

\* buffer sizes a caller asks for: whole elements
Sizes == { 4 * n : n \in 1..MaxElems }

mem_hist == <<allocated, released, minted, written, transfers>>

\* MemoryManager::allocate_raw
allocate_raw(size_bytes) ==
    /\ pc = "idle"
    /\ main_pool.next_id < MaxAllocs
    /\ main_pool' = get_buffer(main_pool, size_bytes)
    /\ ret' = Ok("allocate_raw", <<size_bytes>>, get_buffer_id(main_pool))
    /\ allocated' = allocated \cup {get_buffer_id(main_pool)}
    /\ minted' = [minted EXCEPT !.main = Append(@, get_buffer_id(main_pool))]
    /\ written' = [ k \in (DOMAIN written) \ {get_buffer_id(main_pool)} |-> written[k] ]
    /\ UNCHANGED <<staging_upload, staging_download, pc, call, released, transfers>>
    /\ UNCHANGED not_mem

\* MemoryManager::release
release(id) ==
    /\ pc = "idle"
    /\ main_pool' = release_buffer(main_pool, id)
    /\ ret' = Ok("release", <<id>>, << >>)
    /\ released' = released \cup ({id} \cap allocated)
    /\ written' = [ k \in (DOMAIN written) \ {id} |-> written[k] ]
    /\ UNCHANGED <<staging_upload, staging_download, pc, call, allocated, minted,
                   transfers>>
    /\ UNCHANGED not_mem

\* write_to_buffer, lines 46-50: cast the data, allocate the staging buffer
write_to_buffer(dest_id, dt, data) ==
    /\ pc = "idle"
    /\ transfers.write < MaxTransfers
    /\ LET bytes == cast_slice(dt, data) IN
        /\ staging_upload' = get_buffer(staging_upload, Len(bytes))
        /\ call' = [ op |-> "write_to_buffer", id |-> dest_id, dtype |-> dt,
                     data |-> data, bytes |-> bytes, sid |-> get_buffer_id(staging_upload),
                     dead |-> ~get_ref(dest_id).some,
                     before |-> PoolEntries ]
    /\ minted' = [minted EXCEPT !.upload = Append(@, get_buffer_id(staging_upload))]
    /\ transfers' = [transfers EXCEPT !.write = @ + 1]
    /\ pc' = "w_map"
    /\ UNCHANGED <<main_pool, staging_download, ret, allocated, released, written>>
    /\ UNCHANGED not_mem

\* GpuContext::write_buffer, lines 68-73: map for writing, copy the data in
write_map ==
    /\ pc = "w_map"
    /\ LET buf == get(staging_upload, call.sid).val IN
        staging_upload' = with_buffer(staging_upload, call.sid,
                            [buf EXCEPT !.mapped = TRUE, !.data = call.bytes])
    /\ pc' = "w_unmap"
    /\ UNCHANGED <<main_pool, staging_download, call, ret>>
    /\ UNCHANGED mem_hist
    /\ UNCHANGED not_mem

\* (mutant) write_buffer returns with the staging buffer still mapped
write_unmap_still_mapped ==
    /\ pc = "w_unmap"
    /\ pc' = "w_copy"
    /\ UNCHANGED <<main_pool, staging_upload, staging_download, call, ret>>
    /\ UNCHANGED mem_hist
    /\ UNCHANGED not_mem

\* GpuContext::write_buffer, line 74: unmap
write_unmap ==
    /\ pc = "w_unmap"
    /\ LET buf == get(staging_upload, call.sid).val IN
        staging_upload' = with_buffer(staging_upload, call.sid,
                            [buf EXCEPT !.mapped = FALSE])
    /\ pc' = "w_copy"
    /\ UNCHANGED <<main_pool, staging_download, call, ret>>
    /\ UNCHANGED mem_hist
    /\ UNCHANGED not_mem

\* write_to_buffer, lines 58-60: look the destination up, submit the copy
write_copy ==
    /\ pc = "w_copy"
    /\ LET dst == get(main_pool, call.id)
           src == get(staging_upload, call.sid).val
           n   == Len(call.bytes)
       IN  IF ~dst.some
           THEN /\ pc' = "panicked"
                /\ ret' = Panic("write_to_buffer", <<call.id, call.dtype>>, "unwrap on None")
                /\ UNCHANGED <<main_pool, written>>
           ELSE IF ~copy_valid(src, dst.val, n)
           THEN /\ pc' = "panicked"
                /\ ret' = Panic("write_to_buffer", <<call.id, call.dtype>>, "device validation error")
                /\ UNCHANGED <<main_pool, written>>
           ELSE /\ pc' = "w_release"
                /\ main_pool' = with_buffer(main_pool, call.id,
                                    copy_buffer_to_buffer(src, dst.val, n))
                /\ written' = (call.id :> [ dtype |-> call.dtype, data |-> call.data ])
                                 @@ written
                /\ UNCHANGED ret
    /\ UNCHANGED <<staging_upload, staging_download, call, allocated, released,
                   minted, transfers>>
    /\ UNCHANGED not_mem

\* (mutant) the staging id is released in the main pool too
write_release_main ==
    /\ pc = "w_release"
    /\ staging_upload' = release_buffer(staging_upload, call.sid)
    /\ main_pool' = release_buffer(main_pool, call.sid)
    /\ ret' = Ok("write_to_buffer", <<call.id, call.dtype>>, << >>)
    /\ pc' = "idle"
    /\ call' = NoCall
    /\ UNCHANGED staging_download
    /\ UNCHANGED mem_hist
    /\ UNCHANGED not_mem

\* write_to_buffer, lines 62-65: release the staging buffer, return Ok(())
write_release ==
    /\ pc = "w_release"
    /\ staging_upload' = release_buffer(staging_upload, call.sid)
    /\ ret' = Ok("write_to_buffer", <<call.id, call.dtype>>, << >>)
    /\ pc' = "idle"
    /\ call' = NoCall
    /\ UNCHANGED <<main_pool, staging_download>>
    /\ UNCHANGED mem_hist
    /\ UNCHANGED not_mem

\* download_raw, lines 70-73: look the source up, allocate the staging buffer
download_raw(id, dt) ==
    /\ pc = "idle"
    /\ transfers.download < MaxTransfers
    /\ transfers' = [transfers EXCEPT !.download = @ + 1]
    /\ LET src == get(main_pool, id) IN
        IF ~src.some
        THEN /\ pc' = "panicked"
             /\ ret' = Panic("download_raw", <<id, dt>>, "unwrap on None")
             /\ call' = [ NoCall EXCEPT !.op = "download_raw", !.id = id,
                                        !.dtype = dt, !.dead = TRUE,
                                        !.before = PoolEntries ]
             /\ UNCHANGED <<staging_download, minted>>
        ELSE /\ pc' = "d_copy"
             /\ staging_download' = get_buffer(staging_download, src.val.size)
             /\ call' = [ NoCall EXCEPT !.op = "download_raw", !.id = id,
                                        !.dtype = dt,
                                        !.sid = get_buffer_id(staging_download),
                                        !.before = PoolEntries ]
             /\ minted' = [minted EXCEPT
                              !.download = Append(@, get_buffer_id(staging_download))]
             /\ UNCHANGED ret
    /\ UNCHANGED <<main_pool, staging_upload, allocated, released, written>>
    /\ UNCHANGED not_mem

\* (mutant) the copy takes the first element only
download_copy_first_element ==
    /\ pc = "d_copy"
    /\ LET src == get(main_pool, call.id).val
           dst == get(staging_download, call.sid).val
       IN  staging_download' = with_buffer(staging_download, call.sid,
                                  copy_buffer_to_buffer(src, dst, 4))
    /\ pc' = "d_map"
    /\ UNCHANGED <<main_pool, staging_upload, call, ret>>
    /\ UNCHANGED mem_hist
    /\ UNCHANGED not_mem

\* download_raw, lines 74-76: submit the copy main -> staging
download_copy ==
    /\ pc = "d_copy"
    /\ LET src == get(main_pool, call.id).val
           dst == get(staging_download, call.sid).val
       IN  staging_download' = with_buffer(staging_download, call.sid,
                                  copy_buffer_to_buffer(src, dst, src.size))
    /\ pc' = "d_map"
    /\ UNCHANGED <<main_pool, staging_upload, call, ret>>
    /\ UNCHANGED mem_hist
    /\ UNCHANGED not_mem

\* GpuContext::read_buffer, lines 79-83: map for reading, copy the bytes out
download_map ==
    /\ pc = "d_map"
    /\ LET buf == get(staging_download, call.sid).val IN
        /\ staging_download' = with_buffer(staging_download, call.sid,
                                  [buf EXCEPT !.mapped = TRUE])
        /\ call' = [call EXCEPT !.bytes = buf.data]
    /\ pc' = "d_unmap"
    /\ UNCHANGED <<main_pool, staging_upload, ret>>
    /\ UNCHANGED mem_hist
    /\ UNCHANGED not_mem

\* GpuContext::read_buffer, line 84: unmap
download_unmap ==
    /\ pc = "d_unmap"
    /\ LET buf == get(staging_download, call.sid).val IN
        staging_download' = with_buffer(staging_download, call.sid,
                                  [buf EXCEPT !.mapped = FALSE])
    /\ pc' = "d_release"
    /\ UNCHANGED <<main_pool, staging_upload, call, ret>>
    /\ UNCHANGED mem_hist
    /\ UNCHANGED not_mem

\* download_raw, lines 82-87: release the staging buffer, cast, return the Vec<T>
download_release ==
    /\ pc = "d_release"
    /\ staging_download' = release_buffer(staging_download, call.sid)
    /\ ret' = Ok("download_raw", <<call.id, call.dtype>>,
                  cast_slice_u8(call.dtype, call.bytes))
    /\ pc' = "idle"
    /\ call' = NoCall
    /\ UNCHANGED <<main_pool, staging_upload>>
    /\ UNCHANGED mem_hist
    /\ UNCHANGED not_mem

\* MemoryManager::new
MemInit ==
    /\ main_pool = BufferPool_new
    /\ staging_upload = BufferPool_new
    /\ staging_download = BufferPool_new
    /\ pc = "idle"
    /\ call = NoCall
    /\ ret = Ok("new", << >>, << >>)
    /\ allocated = {}
    /\ released = {}
    /\ minted = [ main |-> << >>, upload |-> << >>, download |-> << >> ]
    /\ written = << >>
    /\ transfers = [ write |-> 0, download |-> 0 ]

MemNext ==
    \/ \E s \in Sizes : allocate_raw(s)
    \/ \E id \in CallerIds : release(id)
    \/ \E id \in CallerIds, dt \in DataType : \E d \in Payload(dt) :
          write_to_buffer(id, dt, d)
    \/ write_map
    \/ write_unmap
    \/ write_copy
    \/ write_release
    \/ \E id \in CallerIds, dt \in DataType : download_raw(id, dt)
    \/ download_copy
    \/ download_map
    \/ download_unmap
    \/ download_release

(***************************************************************************)
(* execution::kernel_manager::KernelManager                                *)
(***************************************************************************)
Threads == 1..NumThreads

\* what callers pass to get: shader sources, entry points, dtype lists, slots
ShaderSources == {"add.wgsl", "mul.wgsl"}
EntryPoints == {"add_strided", "main"}
InputTypes == { <<"F32", "F32">>, <<"I32", "I32">> }
OutputTypes == { <<"F32">>, <<"I32">> }
ParamSlots == {0, 1}

GetArgs ==
    [ src : ShaderSources, entry : EntryPoints, t_in : InputTypes,
      t_out : OutputTypes, p_len : ParamSlots ]

\* (mutant) the key leaves the dtype lists out
KernelKey_no_dtypes(src, entry, t_in, t_out, p_len) ==
    [ src |-> src, ent |-> entry, t_in |-> << >>, t_out |-> << >>, p_len |-> p_len ]

\* struct KernelKey, as get fills it
KernelKey(src, entry, t_in, t_out, p_len) ==
    [ src |-> src, ent |-> entry, t_in |-> t_in, t_out |-> t_out, p_len |-> p_len ]

\* GpuContext::create_storage_layout: n_in read-only slots, then n_out read-write
create_storage_layout(obj, n_in, n_out) ==
    [ obj |-> obj,
      slots |-> [ i \in 1..(n_in + n_out) |-> IF i <= n_in THEN "read_only" ELSE "read_write" ] ]

\* (mutant) the pipeline is tied to the layout of the build before this one
create_compute_pipeline_other_layout(obj, src, entry, layout) ==
    [ obj |-> obj, src |-> src, entry |-> entry, layout |-> layout.obj - 2 ]

\* GpuContext::create_compute_pipeline: the shader compiled against a layout
create_compute_pipeline(obj, src, entry, layout) ==
    [ obj |-> obj, src |-> src, entry |-> entry, layout |-> layout.obj ]

\* (mutant) the lookup never finds the key
cache_get_miss(c, key) ==
    None

\* self.cache.lock().get(&key)
cache_get(c, key) ==
    IF key \in DOMAIN c THEN Some(c[key]) ELSE None

\* (mutant) the insert keeps an entry that is already under the key
cache_insert_keep_first(c, key, bundle) ==
    IF key \in DOMAIN c THEN c ELSE (key :> bundle) @@ c

\* self.cache.lock().insert(key, bundle)
cache_insert(c, key, bundle) ==
    (key :> bundle) @@ c

NoGet == [ args |-> << >>, key |-> << >>, bundle |-> << >> ]

\* one finished get: what was asked, what came back, whether it compiled
Returned(args, bundle, built) ==
    [ args |-> args, pipeline |-> bundle.pipeline, layout |-> bundle.layout,
      built |-> built ]

\* KernelManager::get, lines 44-55: build the key, look it up under the lock;
\* the call is made while fewer than max calls were made before it
kernel_get_within(t, a, max) ==
    /\ kpc[t] = "idle"
    /\ Len(klog) + Cardinality({ u \in Threads : kpc[u] # "idle" }) < max
    /\ LET key == KernelKey(a.src, a.entry, a.t_in, a.t_out, a.p_len)
           hit == cache_get(cache, key)
       IN  IF hit.some
           THEN /\ klog' = Append(klog, Returned(a, hit.val, FALSE))
                /\ UNCHANGED <<kpc, kcall>>
           ELSE /\ kpc' = [kpc EXCEPT ![t] = "build"]
                /\ kcall' = [kcall EXCEPT ![t] = [ NoGet EXCEPT !.args = a, !.key = key ]]
                /\ UNCHANGED klog
    /\ UNCHANGED <<cache, next_obj, compiles>>
    /\ UNCHANGED not_kernel

\* KernelManager::get called by thread t with the arguments a
kernel_get(t, a) == kernel_get_within(t, a, MaxGets)

\* KernelManager::get, lines 57-63: create the layout, compile the pipeline
kernel_build(t) ==
    /\ kpc[t] = "build"
    /\ LET key == kcall[t].key
           layout == create_storage_layout(next_obj, Len(key.t_in) + key.p_len,
                                           Len(key.t_out))
           pipeline == create_compute_pipeline(next_obj + 1, kcall[t].args.src,
                                               kcall[t].args.entry, layout)
       IN  kcall' = [kcall EXCEPT ![t].bundle =
                        [ pipeline |-> pipeline, layout |-> layout ]]
    /\ next_obj' = next_obj + 2
    /\ compiles' = compiles + 1
    /\ kpc' = [kpc EXCEPT ![t] = "insert"]
    /\ UNCHANGED <<cache, klog>>
    /\ UNCHANGED not_kernel

\* KernelManager::get, lines 64-66: insert under the lock, return the new pair
kernel_insert(t) ==
    /\ kpc[t] = "insert"
    /\ cache' = cache_insert(cache, kcall[t].key, kcall[t].bundle)
    /\ klog' = Append(klog, Returned(kcall[t].args, kcall[t].bundle, TRUE))
    /\ kpc' = [kpc EXCEPT ![t] = "idle"]
    /\ kcall' = [kcall EXCEPT ![t] = NoGet]
    /\ UNCHANGED <<next_obj, compiles>>
    /\ UNCHANGED not_kernel

\* KernelManager::new
KernelInit ==
    /\ cache = << >>
    /\ kpc = [ t \in Threads |-> "idle" ]
    /\ kcall = [ t \in Threads |-> NoGet ]
    /\ next_obj = 0
    /\ compiles = 0
    /\ klog = << >>

KernelIdle == \A t \in Threads : kpc[t] = "idle"

\* a get call made while no other get call is under way
kernel_get_seq(t, a) ==
    /\ KernelIdle
    /\ kernel_get(t, a)

\* get calls made one after another, by any of the threads
KernelSeqNext ==
    \/ \E t \in Threads, a \in GetArgs : kernel_get_seq(t, a)
    \/ \E t \in Threads : kernel_build(t)
    \/ \E t \in Threads : kernel_insert(t)

\* what the threads that call get at the same time pass: one shader under
\* two entry points and two input signatures
RaceArgs ==
    { a \in GetArgs : a.src = "add.wgsl" /\ a.t_out = <<"F32">> /\ a.p_len = 0 }

\* get calls made by the threads at any time: a thread's lookup, build and
\* insert interleave with those of the other threads (the lock is held for
\* the lookup and for the insert, not across the build)
KernelNext ==
    \/ \E t \in Threads, a \in RaceArgs : kernel_get_within(t, a, MaxRaceGets)
    \/ \E t \in Threads : kernel_build(t)
    \/ \E t \in Threads : kernel_insert(t)

(***************************************************************************)
(* core-types::ViewDescriptor, tensor::Tensor                              *)
(***************************************************************************)
MAX_DIMS == 8

RECURSIVE compute_strides_colmajor(_)
\* (mutant) the first axis has stride 1 and the strides grow to the right
compute_strides_colmajor(shape) ==
    IF Len(shape) = 0 THEN << >>
    ELSE LET n == Len(shape)
             rest == compute_strides_colmajor(SubSeq(shape, 1, n - 1))
         IN  IF n = 1 THEN <<1>>
             ELSE rest \o <<rest[n - 1] * shape[n - 1]>>

RECURSIVE compute_strides(_)
\* tensor::utils::compute_strides: row-major strides of a shape
compute_strides(shape) ==
    IF Len(shape) = 0 THEN << >>
    ELSE LET rest == compute_strides(Tail(shape))
         IN  IF Len(shape) = 1 THEN <<1>>
             ELSE <<rest[1] * shape[2]>> \o rest

\* (mutant) ndim is left at the zero of ViewDescriptor::zeroed()
contiguous_view_no_ndim(shape) ==
    [ offset |-> 0,
      ndim |-> 0,
      shape |-> [ i \in 1..MAX_DIMS |-> IF i <= Len(shape) THEN shape[i] ELSE 0 ],
      strides |-> [ i \in 1..MAX_DIMS |->
                      IF i <= Len(shape) THEN compute_strides(shape)[i] ELSE 0 ] ]

\* the view Tensor::empty and Tensor::from_vec build: zeroed, then shape and
\* strides filled in for the first ndim axes
contiguous_view(shape) ==
    [ offset |-> 0,
      ndim |-> Len(shape),
      shape |-> [ i \in 1..MAX_DIMS |-> IF i <= Len(shape) THEN shape[i] ELSE 0 ],
      strides |-> [ i \in 1..MAX_DIMS |->
                      IF i <= Len(shape) THEN compute_strides(shape)[i] ELSE 0 ] ]

\* a Tensor<T> handle, wrapped in TensorAny by its element type
Tensor(dt, buffer_id, shape) ==
    [ dtype |-> dt, buffer_id |-> buffer_id, device_id |-> 0,
      view |-> contiguous_view(shape) ]

\* the tensors callers pass: one of each element type
SampleTensors ==
    { Tensor("F32", 0, <<4>>), Tensor("I32", 1, <<2, 3>>), Tensor("U32", 2, <<2>>) }

SeqsUpTo(S, n) == UNION { [1..k -> S] : k \in 0..n }

(***************************************************************************)
(* vknp_ops: operations                                                    *)
(***************************************************************************)
RECURSIVE Product(_)
Product(xs) == IF xs = << >> THEN 1 ELSE Head(xs) * Product(Tail(xs))

\* descriptor_to_uniform
descriptor_to_uniform(v) ==
    [ offset |-> v.offset, ndim |-> v.ndim, pad0 |-> <<0, 0>>,
      shape |-> v.shape, strides |-> v.strides ]

\* AddOp::new: the signature of "add"
AddOp ==
    [ impl |-> "AddOp",
      sig |-> [ name |-> "add", num_inputs |-> 2, num_outputs |-> 1,
                input_dtypes |-> << {"F32"}, {"F32"} >>,
                output_dtypes |-> << {"F32"} >> ] ]

\* AddOp::shader_template
AddOp_shader_template == [ src |-> "ADD_WGSL", entry |-> "add_strided" ]

\* (mutant) the task names the second input first
AddOp_prepare_swapped(inputs, outputs) ==
    LET a == inputs[1]
        b == inputs[2]
        c == outputs[1]
        total == Product(SubSeq(c.view.shape, 1, c.view.ndim))
        meta == [ a |-> descriptor_to_uniform(a.view),
                  b |-> descriptor_to_uniform(b.view),
                  c |-> descriptor_to_uniform(c.view),
                  total_elems |-> total ]
    IN  [ kind |-> "Gpu",
          task |-> [ pipeline_source |-> AddOp_shader_template.src,
                     entry_point |-> AddOp_shader_template.entry,
                     input_descs |-> <<a.view, b.view>>,
                     output_descs |-> <<c.view>>,
                     input_types |-> <<a.dtype, b.dtype>>,
                     output_types |-> <<c.dtype>>,
                     input_ids |-> <<b.buffer_id, a.buffer_id>>,
                     output_ids |-> <<c.buffer_id>>,
                     params |-> <<meta>> ] ]

\* AddOp::prepare
AddOp_prepare(inputs, outputs) ==
    LET a == inputs[1]
        b == inputs[2]
        c == outputs[1]
        total == Product(SubSeq(c.view.shape, 1, c.view.ndim))
        meta == [ a |-> descriptor_to_uniform(a.view),
                  b |-> descriptor_to_uniform(b.view),
                  c |-> descriptor_to_uniform(c.view),
                  total_elems |-> total ]
    IN  [ kind |-> "Gpu",
          task |-> [ pipeline_source |-> AddOp_shader_template.src,
                     entry_point |-> AddOp_shader_template.entry,
                     input_descs |-> <<a.view, b.view>>,
                     output_descs |-> <<c.view>>,
                     input_types |-> <<a.dtype, b.dtype>>,
                     output_types |-> <<c.dtype>>,
                     input_ids |-> <<a.buffer_id, b.buffer_id>>,
                     output_ids |-> <<c.buffer_id>>,
                     params |-> <<meta>> ] ]

\* An operation a caller registers beside "add" (any impl of trait Op): its
\* input slot allows two element types and it has two output slots.
SplitOp ==
    [ impl |-> "SplitOp",
      sig |-> [ name |-> "split", num_inputs |-> 1, num_outputs |-> 2,
                input_dtypes |-> << {"I32", "U32"} >>,
                output_dtypes |-> << {"F32", "I32"}, {"I32"} >> ] ]

SampleOps == {AddOp, SplitOp}

\* its prepare: one Gpu task over the tensors in argument order
SampleOp_prepare(op, inputs, outputs) ==
    [ kind |-> "Gpu",
      task |-> [ pipeline_source |-> op.impl, entry_point |-> "main",
                 input_descs |-> [ i \in 1..Len(inputs) |-> inputs[i].view ],
                 output_descs |-> [ i \in 1..Len(outputs) |-> outputs[i].view ],
                 input_types |-> [ i \in 1..Len(inputs) |-> inputs[i].dtype ],
                 output_types |-> [ i \in 1..Len(outputs) |-> outputs[i].dtype ],
                 input_ids |-> [ i \in 1..Len(inputs) |-> inputs[i].buffer_id ],
                 output_ids |-> [ i \in 1..Len(outputs) |-> outputs[i].buffer_id ],
                 params |-> << >> ] ]

\* op.prepare(&inputs, &outputs), dispatched on the implementation
prepare(op, inputs, outputs) ==
    IF op.impl = "AddOp" THEN AddOp_prepare(inputs, outputs)
    ELSE SampleOp_prepare(op, inputs, outputs)

(***************************************************************************)
(* vknp_ops::OpRegistry                                                    *)
(***************************************************************************)
\* (mutant) the error carries an empty name
UnknownOp_blank(name) ==
    [ kind |-> "UnknownOp", name |-> "" ]

\* OpError::UnknownOp
UnknownOp(name) ==
    [ kind |-> "UnknownOp", name |-> name ]

\* OpError::ArityMismatch
ArityMismatch(op, expected, found) ==
    [ kind |-> "ArityMismatch", op |-> op, expected |-> expected, found |-> found ]

\* OpError::DtypeMismatch
DtypeMismatch(op, index, expected, found) ==
    [ kind |-> "DtypeMismatch", op |-> op, index |-> index,
      expected |-> expected, found |-> found ]

Prepared(p) == [ kind |-> "Ok", prepared |-> p ]

\* (mutant) the scan keeps the last offending slot, not the first
first_mismatch_last(tensors, allowed) ==
    LET bad == { k \in 1..Len(tensors) : tensors[k].dtype \notin allowed[k] }
    IN  IF bad = {} THEN 0 ELSE CHOOSE k \in bad : \A m \in bad : m <= k

RECURSIVE scan_mismatch(_, _, _)
\* for (i, t) in tensors.iter().enumerate(): the first position (from 1) at or
\* after i whose dtype is not in its allowed list, 0 when the loop runs out
scan_mismatch(tensors, allowed, i) ==
    IF i > Len(tensors) THEN 0
    ELSE IF tensors[i].dtype \notin allowed[i] THEN i
    ELSE scan_mismatch(tensors, allowed, i + 1)

\* the dtype loop of check_and_prepare, from the first slot
first_mismatch(tensors, allowed) ==
    scan_mismatch(tensors, allowed, 1)

\* how a check_and_prepare call ended: its Result, and how many times it
\* invoked the operation's prepare on the way
Outcome(result, prepares) == [ result |-> result, prepares |-> prepares ]

\* (mutant) prepare is invoked as soon as the inputs are validated, before the
\* output checks
check_and_prepare_call_eager(map, name, inputs, outputs) ==
    IF name \notin DOMAIN map THEN Outcome(UnknownOp(name), 0)
    ELSE
    LET op  == map[name]
        sig == op.sig
        bad_in  == first_mismatch(inputs, sig.input_dtypes)
        bad_out == first_mismatch(outputs, sig.output_dtypes)
    IN  IF Len(inputs) # sig.num_inputs
        THEN Outcome(ArityMismatch(name, sig.num_inputs, Len(inputs)), 0)
        ELSE IF bad_in # 0
        THEN Outcome(DtypeMismatch(name, bad_in - 1, sig.input_dtypes[bad_in],
                                   inputs[bad_in].dtype), 0)
        ELSE IF Len(outputs) # sig.num_outputs
        THEN Outcome(ArityMismatch(name, sig.num_outputs, Len(outputs)), 1)
        ELSE IF bad_out # 0
        THEN Outcome(DtypeMismatch(name, bad_out - 1, sig.output_dtypes[bad_out],
                                   outputs[bad_out].dtype), 1)
        ELSE Outcome(Prepared(prepare(op, inputs, outputs)), 1)

\* OpRegistry::check_and_prepare, statement by statement: lookup, input count,
\* input dtype loop, output count, output dtype loop, prepare
check_and_prepare_call(map, name, inputs, outputs) ==
    IF name \notin DOMAIN map THEN Outcome(UnknownOp(name), 0)
    ELSE
    LET op  == map[name]
        sig == op.sig
        bad_in  == first_mismatch(inputs, sig.input_dtypes)
        bad_out == first_mismatch(outputs, sig.output_dtypes)
    IN  IF Len(inputs) # sig.num_inputs
        THEN Outcome(ArityMismatch(name, sig.num_inputs, Len(inputs)), 0)
        ELSE IF bad_in # 0
        THEN Outcome(DtypeMismatch(name, bad_in - 1, sig.input_dtypes[bad_in],
                                   inputs[bad_in].dtype), 0)
        ELSE IF Len(outputs) # sig.num_outputs
        THEN Outcome(ArityMismatch(name, sig.num_outputs, Len(outputs)), 0)
        ELSE IF bad_out # 0
        THEN Outcome(DtypeMismatch(name, bad_out - 1, sig.output_dtypes[bad_out],
                                   outputs[bad_out].dtype), 0)
        ELSE Outcome(Prepared(prepare(op, inputs, outputs)), 1)

\* OpRegistry::check_and_prepare: what the call returns
check_and_prepare(map, name, inputs, outputs) ==
    check_and_prepare_call(map, name, inputs, outputs).result

\* names callers ask for, and the name an operation is boxed under
OpNames == {"add", "split", "plus", "extremely_strange_op"}
BoxedNames == {"plus"}

NoRet == [ called |-> FALSE ]

\* (mutant) an entry already under the name is kept
map_insert_keep_first(map, name, op) ==
    map @@ (name :> op)

\* HashMap::insert: the entry under the name is added or replaced
map_insert(map, name, op) ==
    (name :> op) @@ map

\* OpRegistry::get: the operation under the name, if any
registry_get(map, name) ==
    IF name \in DOMAIN map
    THEN [ kind |-> "Some", op |-> map[name] ]
    ELSE [ kind |-> "None" ]

NoLookup == [ called |-> FALSE ]

\* history: the registration just made is the last one under its name, and
\* whether it came over a different operation
Registering(name, op) ==
    /\ registered' = [ n \in DOMAIN registered \cup {name} |->
                         IF n = name
                         THEN [ op |-> op,
                                replaced |-> /\ name \in DOMAIN registered
                                             /\ registered[name].op.impl # op.impl ]
                         ELSE registered[n] ]
    /\ gret' = NoLookup

\* OpRegistry::register_boxed
register_boxed(name, op) ==
    /\ reg_map' = map_insert(reg_map, name, op)
    /\ Registering(name, op)
    /\ rret' = NoRet
    /\ UNCHANGED not_reg

\* OpRegistry::register: under the name of the operation's signature
register(op) ==
    /\ reg_map' = map_insert(reg_map, op.sig.name, op)
    /\ Registering(op.sig.name, op)
    /\ rret' = NoRet
    /\ UNCHANGED not_reg

\* OpRegistry::collect_inventory: the inventory holds register_op!(AddOp)
collect_inventory ==
    /\ reg_map' = map_insert(reg_map, "add", AddOp)
    /\ Registering("add", AddOp)
    /\ rret' = NoRet
    /\ UNCHANGED not_reg

\* a caller's check_and_prepare call, on any name and tensors
call_check_and_prepare ==
    /\ ~rret.called
    /\ \E name \in OpNames :
         \E inputs \in SeqsUpTo(SampleTensors, MaxInputs) :
           \E outputs \in SeqsUpTo(SampleTensors, MaxOutputs) :
              rret' = [ called |-> TRUE, name |-> name, inputs |-> inputs,
                        outputs |-> outputs,
                        result |-> check_and_prepare(reg_map, name, inputs, outputs),
                        prepares |->
                            check_and_prepare_call(reg_map, name, inputs, outputs).prepares ]
    /\ UNCHANGED <<reg_map, registered, gret>>
    /\ UNCHANGED not_reg

\* the caller is done with the Result
drop_result ==
    /\ rret.called
    /\ rret' = NoRet
    /\ UNCHANGED <<reg_map, registered, gret>>
    /\ UNCHANGED not_reg

\* a caller's get call, on any name
call_get(name) ==
    /\ gret' = [ called |-> TRUE, name |-> name, result |-> registry_get(reg_map, name) ]
    /\ UNCHANGED <<reg_map, rret, registered>>
    /\ UNCHANGED not_reg

\* OpRegistry::new
RegInit ==
    /\ reg_map = << >>
    /\ rret = NoRet
    /\ registered = << >>
    /\ gret = NoLookup

RegNext ==
    \/ collect_inventory
    \/ \E op \in SampleOps : register(op)
    \/ \E name \in BoxedNames : \E op \in SampleOps : register_boxed(name, op)
    \/ \E name \in OpNames : call_get(name)
    \/ drop_result
    \/ call_check_and_prepare

(***************************************************************************)
(* The device: compute kernels and dispatches                              *)
(***************************************************************************)
RECURSIVE f32_normalise(_, _)
\* the bit pattern of sum * 2^(e - 150), sum an integer significand; exact
\* results only
f32_normalise(sum, e) ==
    IF sum < 16777216 THEN (e * 8388608) + (sum - 8388608)
    ELSE CASE sum % 2 = 0 -> f32_normalise(sum \div 2, e + 1)

\* IEEE-754 single precision addition on bit patterns, for the operands the
\* model meets: positive normal numbers whose exponents are at most 6 apart
\* and whose sum is exact.  A sum with an unspecified operand is unspecified.
f32_add(x, y) ==
    IF x = UnspecElem \/ y = UnspecElem THEN UnspecElem
    ELSE LET ex == x \div 8388608
             ey == y \div 8388608
             mx == (x % 8388608) + 8388608
             my == (y % 8388608) + 8388608
         IN  CASE ex >= ey /\ ex - ey <= 6 /\ ey >= 1 ->
                    f32_normalise(mx * (2 ^ (ex - ey)) + my, ey)
               [] ey > ex /\ ey - ex <= 6 /\ ex >= 1 ->
                    f32_normalise(my * (2 ^ (ey - ex)) + mx, ex)

\* the 32-bit words of a buffer, and the four bytes of a word a kernel stores
buffer_words(buf) == cast_slice_u8("U32", buf.data)

word_bytes(v) ==
    IF v = UnspecElem THEN <<UninitByte, UninitByte, UninitByte, UninitByte>>
    ELSE WordBytes(v)

\* The bindings of the shaders the model runs.  ADD_KERNEL_WGSL is the
\* three-binding kernel of kernel_manager's test; ADD_WGSL is the shader of
\* the "add" operation, with its metadata block at binding 2.
ShaderInterface(src, entry) ==
    IF src = "ADD_KERNEL_WGSL" /\ entry = "add_kernel"
    THEN <<"read_only", "read_only", "read_write">>
    ELSE IF src = "ADD_WGSL" /\ entry = "add_strided"
    THEN <<"read_only", "read_only", "read_only", "read_write">>
    ELSE << >>

\* the device accepts a pipeline when the shader has the entry point and the
\* layout has a slot for each of its bindings, writable where it writes
pipeline_valid(pipeline, layout) ==
    LET iface == ShaderInterface(pipeline.src, pipeline.entry) IN
    /\ iface # << >>
    /\ Len(iface) = Len(layout.slots)
    /\ \A i \in 1..Len(iface) :
          iface[i] = "read_write" => layout.slots[i] = "read_write"

\* the device accepts a bind group when it has one buffer per slot of the
\* layout and no buffer bound for writing is bound a second time
bind_group_valid(layout, bound) ==
    /\ Len(bound) = Len(layout.slots)
    /\ \A i, j \in 1..Len(bound) :
          (i # j /\ layout.slots[i] = "read_write") => bound[i] # bound[j]

\* add_kernel over x work groups of 64: C[i] = A[i] + B[i] for every
\* invocation i inside C; a read outside A or B yields an unspecified value
add_kernel(A, B, C, x) ==
    LET a == buffer_words(A)
        b == buffer_words(B)
        c == buffer_words(C)
        n == IF 64 * x < Len(c) THEN 64 * x ELSE Len(c)
        out == [ i \in 1..n |->
                   IF i <= Len(a) /\ i <= Len(b) THEN f32_add(a[i], b[i])
                   ELSE UnspecElem ]
    IN  [ C EXCEPT !.data =
            [ k \in 1..C.size |->
                IF k <= 4 * n
                THEN word_bytes(out[((k - 1) \div 4) + 1])[((k - 1) % 4) + 1]
                ELSE C.data[k] ] ]

(***************************************************************************)
(* ops::builtin::add: the shader ADD_WGSL                                  *)
(***************************************************************************)
\* WGSL integer division and remainder: e1 / 0 is e1 and e1 % 0 is 0
wgsl_div(x, y) == IF y = 0 THEN x ELSE x \div y
wgsl_mod(x, y) == IF y = 0 THEN 0 ELSE x % y

RECURSIVE linear_to_offsets_loop_up(_, _, _, _)
\* (mutant) the loop runs from the first axis to the last
linear_to_offsets_loop_up(idx, off, d, v) ==
    IF d < 0 THEN off
    ELSE LET du == (v.ndim - 1) - d
             dim == v.shape[du + 1]
             coord == wgsl_mod(idx, dim)
         IN  linear_to_offsets_loop_up(wgsl_div(idx, dim),
                                       off + coord * v.strides[du + 1], d - 1, v)

RECURSIVE linear_to_offsets_loop(_, _, _, _)
\* the loop of linear_to_offsets, from axis d down to axis 0.  The shader's
\* arithmetic is on u32; the model's views keep every value far below 2^31.
linear_to_offsets_loop(idx, off, d, v) ==
    IF d < 0 THEN off
    ELSE LET dim == v.shape[d + 1]
             coord == wgsl_mod(idx, dim)
         IN  linear_to_offsets_loop(wgsl_div(idx, dim),
                                    off + coord * v.strides[d + 1], d - 1, v)

\* fn linear_to_offsets(i, v): the element offset of work item i in the view
linear_to_offsets(i, v) ==
    linear_to_offsets_loop(i, v.offset, v.ndim - 1, v)

\* fn add_strided, one invocation with global id i: the array C after it.
\* A, B and C are the f32 arrays of the bindings (element e is at e + 1), M
\* the metadata block; every offset is inside its array.
add_strided(i, M, A, B, C) ==
    IF i >= M.total_elems THEN C
    ELSE LET ai == linear_to_offsets(i, M.a)
             bi == linear_to_offsets(i, M.b)
             ci == linear_to_offsets(i, M.c)
         IN  [ C EXCEPT ![ci + 1] = f32_add(A[ai + 1], B[bi + 1]) ]

(***************************************************************************)
(* vknp_core::GpuContext: dispatch                                         *)
(***************************************************************************)
\* The state a run_prepared call works on: the main pool, the kernel cache
\* with its object and compile counters, the device queue, and whether the
\* call is still running ("Ok") or has panicked.
World ==
    [ pool |-> main_pool, cache |-> cache, next_obj |-> next_obj,
      compiles |-> compiles, klog |-> klog, submitted |-> submitted,
      status |-> "Ok", msg |-> "" ]

panic(W, msg) == [ W EXCEPT !.status = "Panic", !.msg = msg ]

\* the builds: overflow checks on (debug) or off (release)
Builds == {"debug", "release"}

\* the result of an operation on unsigned words of the given width: the value
\* if it fits; if not, a panic with overflow checks on, the value wrapped
\* with them off
word(v, bits, build) ==
    IF v >= 0 /\ v < 2 ^ bits THEN [ kind |-> "Ok", val |-> v ]
    ELSE IF build = "debug" THEN [ kind |-> "Panic", val |-> 0 ]
    ELSE [ kind |-> "Ok", val |-> v % (2 ^ bits) ]

\* GpuContext::dispatch_size_1d on words of the given width:
\* (total + workgroup_size - 1) / workgroup_size, evaluated left to right
dispatch_size_1d_bits(total, workgroup_size, bits, build) ==
    LET sum  == word(total + workgroup_size, bits, build)
        less == IF sum.kind = "Ok" THEN word(sum.val - 1, bits, build) ELSE sum
    IN  IF less.kind = "Ok"
        THEN [ kind |-> "Ok", val |-> less.val \div workgroup_size ]
        ELSE less

RECURSIVE product_bits(_, _, _, _)
\* shape[0] * ... * shape[k-1] on words of the given width, multiplied from
\* the left, starting at 1
product_bits(shape, k, bits, build) ==
    IF k = 0 THEN [ kind |-> "Ok", val |-> 1 ]
    ELSE LET p == product_bits(shape, k - 1, bits, build) IN
         IF p.kind = "Ok" THEN word(p.val * shape[k], bits, build) ELSE p

\* ExecutionEngine::run_gpu_task: the total of the first output view
run_gpu_task_total(vd, bits, build) ==
    product_bits(vd.shape, vd.ndim, bits, build)

\* AddOp::prepare: the total of the output's view
AddOp_prepare_total(view, bits, build) ==
    product_bits(view.shape, view.ndim, bits, build)

\* (mutant) the group count is rounded down
dispatch_size_1d_floor(total, workgroup_size) ==
    total \div workgroup_size

\* GpuContext::dispatch_size_1d: the x of (x, 1, 1), for the totals of the
\* dispatches made here, which are far from the end of the word
dispatch_size_1d(total, workgroup_size) ==
    (total + workgroup_size - 1) \div workgroup_size

\* GpuContext::create_storage_bind_group: the buffers bound, by slot: inputs
\* from slot 0, outputs from slot inputs.len()
create_storage_bind_group(inputs, outputs) ==
    inputs \o outputs

\* what the kernel of a valid dispatch does to the buffers bound
run_kernel(pool, pipeline, bound, x) ==
    CASE pipeline.src = "ADD_KERNEL_WGSL" /\ pipeline.entry = "add_kernel" ->
            with_buffer(pool, bound[3],
                add_kernel(get(pool, bound[1]).val, get(pool, bound[2]).val,
                           get(pool, bound[3]).val, x))

\* (mutant) the pass is recorded but its writes are not visible to what is
\* submitted after it
dispatch_compute_1d_deferred(W, pipeline, layout, inputs, outputs, total_elems, workgroup_size) ==
    LET bg == create_storage_bind_group(inputs, outputs)
        x  == dispatch_size_1d(total_elems, workgroup_size)
        valid == pipeline_valid(pipeline, layout) /\ bind_group_valid(layout, bg)
    IN  [ W EXCEPT
            !.submitted = Append(@,
                [ pipeline |-> pipeline, layout |-> layout, bound |-> bg,
                  total_elems |-> total_elems, x |-> x, valid |-> valid ]) ]

\* GpuContext::dispatch_compute_1d: bind, size, encode, submit.  The queue
\* runs commands in submission order, so the dispatch has taken effect for
\* every command submitted after it; a dispatch the device rejects (pipeline
\* or bind group invalid) changes no buffer.
dispatch_compute_1d(W, pipeline, layout, inputs, outputs, total_elems, workgroup_size) ==
    LET bg == create_storage_bind_group(inputs, outputs)
        x  == dispatch_size_1d(total_elems, workgroup_size)
        valid == pipeline_valid(pipeline, layout) /\ bind_group_valid(layout, bg)
    IN  [ W EXCEPT
            !.pool = IF valid THEN run_kernel(W.pool, pipeline, bg, x) ELSE W.pool,
            !.submitted = Append(@,
                [ pipeline |-> pipeline, layout |-> layout, bound |-> bg,
                  total_elems |-> total_elems, x |-> x, valid |-> valid ]) ]

(***************************************************************************)
(* execution::ExecutionEngine                                              *)
(***************************************************************************)
\* KernelManager::get, called by the engine: lookup, and on a miss build and
\* insert; the world after the call and the pair returned
kernels_get(W, a) ==
    LET key == KernelKey(a.src, a.entry, a.t_in, a.t_out, a.p_len)
        hit == cache_get(W.cache, key)
        layout == create_storage_layout(W.next_obj, Len(key.t_in) + key.p_len,
                                        Len(key.t_out))
        pipeline == create_compute_pipeline(W.next_obj + 1, a.src, a.entry, layout)
        bundle == [ pipeline |-> pipeline, layout |-> layout ]
    IN  IF hit.some
        THEN [ world |-> [ W EXCEPT !.klog = Append(@, Returned(a, hit.val, FALSE)) ],
               bundle |-> hit.val ]
        ELSE [ world |-> [ W EXCEPT !.cache = cache_insert(@, key, bundle),
                                    !.next_obj = @ + 2,
                                    !.compiles = @ + 1,
                                    !.klog = Append(@, Returned(a, bundle, TRUE)) ],
               bundle |-> bundle ]

\* The engine's call of kernels.get passes source, entry point and the two
\* dtype lists, and no parameter-slot count, where get takes five arguments:
\* the count the build ends up with is either 0 or the task's blob count.
SlotChoices == {"none", "params"}

engine_p_len(task, choice) ==
    IF choice = "params" THEN Len(task.params) ELSE 0

\* ExecutionEngine::run_gpu_task
run_gpu_task(W, task, choice) ==
    IF \E i \in 1..Len(task.input_ids) : ~get(W.pool, task.input_ids[i]).some
    THEN panic(W, "missing input buffer")
    ELSE IF \E i \in 1..Len(task.output_ids) : ~get(W.pool, task.output_ids[i]).some
    THEN panic(W, "missing output buffer")
    ELSE
    LET g == kernels_get(W, [ src |-> task.pipeline_source,
                              entry |-> task.entry_point,
                              t_in |-> task.input_types,
                              t_out |-> task.output_types,
                              p_len |-> engine_p_len(task, choice) ])
    IN  IF Len(task.output_descs) = 0
        THEN panic(g.world, "index out of bounds")
        ELSE LET vd == task.output_descs[1]
                 total == Product(SubSeq(vd.shape, 1, vd.ndim))
             IN  dispatch_compute_1d(g.world, g.bundle.pipeline, g.bundle.layout,
                                     task.input_ids, task.output_ids, total, 64)

RECURSIVE run_prepared_reversed(_, _, _)
\* (mutant) the sub-operations of a Composite are run last to first
run_prepared_reversed(W, prepared, choice) ==
    IF W.status # "Ok" THEN W
    ELSE IF prepared.kind = "Gpu" THEN run_gpu_task(W, prepared.task, choice)
    ELSE IF prepared.ops = << >> THEN W
    ELSE run_prepared_reversed(
             run_prepared_reversed(W, prepared.ops[Len(prepared.ops)], choice),
             [ prepared EXCEPT !.ops = SubSeq(@, 1, Len(@) - 1) ], choice)

RECURSIVE run_prepared(_, _, _)
\* ExecutionEngine::run_prepared: a Gpu task is run; the sub-operations of a
\* Composite are run in list order, and a panic unwinds through the loop
run_prepared(W, prepared, choice) ==
    IF W.status # "Ok" THEN W
    ELSE IF prepared.kind = "Gpu" THEN run_gpu_task(W, prepared.task, choice)
    ELSE IF prepared.ops = << >> THEN W
    ELSE run_prepared(run_prepared(W, Head(prepared.ops), choice),
                      [ prepared EXCEPT !.ops = Tail(@) ], choice)

\* PreparedOp::Gpu and PreparedOp::Composite
Gpu(task) == [ kind |-> "Gpu", task |-> task ]
Composite(ops) == [ kind |-> "Composite", ops |-> ops ]

(***************************************************************************)
(* tensor::Tensor: constructors and to_vec, each a whole call              *)
(***************************************************************************)
\* what a finished constructor call leaves in fcall
Returned_tensor(op, dt, shape, device_id, t) ==
    [ op |-> op, arg |-> <<dt, shape, device_id>>, kind |-> "Ok", val |-> t ]

Panicked_tensor(op, dt, shape, device_id, msg) ==
    [ op |-> op, arg |-> <<dt, shape, device_id>>, kind |-> "Panic", val |-> msg ]

\* the handle a constructor returns
Tensor_new(dt, buffer_id, shape, device_id) ==
    [ Tensor(dt, buffer_id, shape) EXCEPT !.device_id = device_id ]

\* Tensor::from_vec: allocate_raw, write_to_buffer (stage, copy, release the
\* staging buffer), build the view; vd.shape[i] panics for a ninth axis
Tensor_from_vec(dt, data, shape, device_id) ==
    /\ pc = "idle" /\ epc = "idle"
    /\ Len(handles) < MaxTensors
    /\ LET bytes  == Product(shape) * size_in_bytes(dt)
           id     == get_buffer_id(main_pool)
           pool1  == get_buffer(main_pool, bytes)
           raw    == cast_slice(dt, data)
           sid    == get_buffer_id(staging_upload)
           stage1 == get_buffer(staging_upload, Len(raw))
           src    == [ get(stage1, sid).val EXCEPT !.data = raw ]
           dst    == get(pool1, id).val
       IN  /\ staging_upload' = release_buffer(with_buffer(stage1, sid, src), sid)
           /\ minted' = [ minted EXCEPT !.main = Append(@, id), !.upload = Append(@, sid) ]
           /\ allocated' = allocated \cup {id}
           /\ transfers' = [ transfers EXCEPT !.write = @ + 1 ]
           /\ IF copy_valid(src, dst, Len(raw))
              THEN /\ main_pool' = with_buffer(pool1, id,
                                        copy_buffer_to_buffer(src, dst, Len(raw)))
                   /\ written' = (id :> [ dtype |-> dt, data |-> data ]) @@ written
                   /\ ret' = Ok("write_to_buffer", <<id, dt>>, << >>)
                   /\ IF Len(shape) <= MAX_DIMS
                      THEN /\ handles' = Append(handles, Tensor_new(dt, id, shape, device_id))
                           /\ fcall' = Returned_tensor("Tensor::from_vec", dt, shape, device_id,
                                                       Tensor_new(dt, id, shape, device_id))
                           /\ UNCHANGED pc
                      ELSE /\ pc' = "panicked"
                           /\ fcall' = Panicked_tensor("Tensor::from_vec", dt, shape, device_id,
                                                       "index out of bounds")
                           /\ UNCHANGED handles
              ELSE /\ main_pool' = pool1
                   /\ ret' = Panic("write_to_buffer", <<id, dt>>, "device validation error")
                   /\ pc' = "panicked"
                   /\ fcall' = Panicked_tensor("Tensor::from_vec", dt, shape, device_id,
                                               "device validation error")
                   /\ UNCHANGED <<written, handles>>
    /\ UNCHANGED <<staging_download, call, released>>
    /\ UNCHANGED <<submitted, epc, eret, runs>>
    /\ UNCHANGED <<kernel_vars, reg_vars, tids, pool_vars>>

\* Tensor::empty: allocate_raw, build the view; the buffer is not written
Tensor_empty(dt, shape, device_id) ==
    /\ pc = "idle" /\ epc = "idle"
    /\ Len(handles) < MaxTensors
    /\ LET bytes == Product(shape) * size_in_bytes(dt)
           id    == get_buffer_id(main_pool)
       IN  /\ main_pool' = get_buffer(main_pool, bytes)
           /\ minted' = [ minted EXCEPT !.main = Append(@, id) ]
           /\ allocated' = allocated \cup {id}
           /\ written' = [ k \in (DOMAIN written) \ {id} |-> written[k] ]
           /\ ret' = Ok("allocate_raw", <<bytes>>, id)
           /\ IF Len(shape) <= MAX_DIMS
              THEN /\ handles' = Append(handles, Tensor_new(dt, id, shape, device_id))
                   /\ fcall' = Returned_tensor("Tensor::empty", dt, shape, device_id,
                                               Tensor_new(dt, id, shape, device_id))
                   /\ UNCHANGED pc
              ELSE /\ pc' = "panicked"
                   /\ fcall' = Panicked_tensor("Tensor::empty", dt, shape, device_id,
                                               "index out of bounds")
                   /\ UNCHANGED handles
    /\ UNCHANGED <<staging_upload, staging_download, call, released, transfers>>
    /\ UNCHANGED <<submitted, epc, eret, runs>>
    /\ UNCHANGED <<kernel_vars, reg_vars, tids, pool_vars>>

\* Tensor::to_vec: download_raw(buffer_id).unwrap(), from the lookup to the
\* release of the staging buffer
Tensor_to_vec(t) ==
    /\ pc = "idle" /\ epc = "idle"
    /\ transfers.download < MaxTransfers
    /\ transfers' = [ transfers EXCEPT !.download = @ + 1 ]
    /\ LET src == get(main_pool, t.buffer_id)
           sid == get_buffer_id(staging_download)
           stage1 == get_buffer(staging_download, src.val.size)
           dst == copy_buffer_to_buffer(src.val, get(stage1, sid).val, src.val.size)
       IN  IF ~src.some
           THEN /\ pc' = "panicked"
                /\ ret' = Panic("download_raw", <<t.buffer_id, t.dtype>>, "unwrap on None")
                /\ UNCHANGED <<staging_download, minted>>
           ELSE /\ staging_download' = release_buffer(with_buffer(stage1, sid, dst), sid)
                /\ minted' = [ minted EXCEPT !.download = Append(@, sid) ]
                /\ ret' = Ok("download_raw", <<t.buffer_id, t.dtype>>,
                             cast_slice_u8(t.dtype, dst.data))
                /\ UNCHANGED pc
    /\ UNCHANGED <<main_pool, staging_upload, call, allocated, released, written>>
    /\ UNCHANGED not_mem

(***************************************************************************)
(* The engine's caller                                                     *)
(***************************************************************************)
\* a task a caller builds by hand for the three-binding kernel: c = a + b
kernel_task(a, b, c) ==
    [ pipeline_source |-> "ADD_KERNEL_WGSL", entry_point |-> "add_kernel",
      input_descs |-> <<a.view, b.view>>, output_descs |-> <<c.view>>,
      input_types |-> <<a.dtype, b.dtype>>, output_types |-> <<c.dtype>>,
      input_ids |-> <<a.buffer_id, b.buffer_id>>, output_ids |-> <<c.buffer_id>>,
      params |-> << >> ]

\* output views a caller may describe: rank 0, one and two axes, element
\* counts around the work-group size, an empty axis, and a rank-1 view whose
\* entries past ndim are not zero
TestViews ==
    { contiguous_view(<< >>), contiguous_view(<<64>>), contiguous_view(<<65>>),
      contiguous_view(<<5, 13>>), contiguous_view(<<3, 0>>),
      [ contiguous_view(<<2>>) EXCEPT !.shape = [ i \in 1..MAX_DIMS |-> IF i = 1 THEN 2 ELSE 9 ] ] }

\* the PreparedOps a caller holding three tensors runs without the registry:
\* the empty Composite, one task, and trees of up to three tasks that write
\* different tensors; a list whose second task names a buffer id that was
\* never allocated; the same task over each test view; a task without output
\* descriptors
CallerPrepared ==
    IF Len(handles) < 3 THEN { Composite(<< >>) }
    ELSE
    LET L1 == Gpu(kernel_task(handles[1], handles[2], handles[3]))
        L2 == Gpu(kernel_task(handles[3], handles[1], handles[2]))
        L3 == Gpu(kernel_task(handles[2], handles[3], handles[1]))
        stale == [ handles[3] EXCEPT !.buffer_id = IdModulus - 1 ]
    IN  { Composite(<< >>), L1,
          Composite(<< L1, Gpu(kernel_task(handles[1], handles[2], stale)), L2 >>),
          Composite(<<L1, L2>>),
          Composite(<< Composite(<<L1, L2>>), L3 >>),
          Composite(<< L3, Composite(<< >>), Composite(<<L2, L1>>) >>) }
        \cup { Gpu([ L1.task EXCEPT !.output_descs = <<v>> ]) : v \in TestViews }
        \cup { Gpu([ L1.task EXCEPT !.output_descs = << >> ]) }

Held == { handles[i] : i \in 1..Len(handles) }

\* (mutant) a failed lookup leaves an entry for the name behind
call_check_and_prepare_held_inserting ==
    /\ ~rret.called
    /\ epc = "idle"
    /\ \E name \in {"add"} :
         \E inputs \in [1..2 -> Held] \cup [1..1 -> Held] :
           \E outputs \in [1..1 -> Held] :
              rret' = [ called |-> TRUE, name |-> name, inputs |-> inputs,
                        outputs |-> outputs,
                        result |-> check_and_prepare(reg_map, name, inputs, outputs),
                        prepares |->
                            check_and_prepare_call(reg_map, name, inputs, outputs).prepares ]
    /\ reg_map' = IF "add" \in DOMAIN reg_map THEN reg_map
                  ELSE map_insert(reg_map, "add", AddOp)
    /\ UNCHANGED <<registered, gret>>
    /\ UNCHANGED not_reg

\* a caller's check_and_prepare call on tensors it holds
call_check_and_prepare_held ==
    /\ ~rret.called
    /\ epc = "idle"
    /\ \E name \in {"add"} :
         \E inputs \in [1..2 -> Held] \cup [1..1 -> Held] :
           \E outputs \in [1..1 -> Held] :
              rret' = [ called |-> TRUE, name |-> name, inputs |-> inputs,
                        outputs |-> outputs,
                        result |-> check_and_prepare(reg_map, name, inputs, outputs),
                        prepares |->
                            check_and_prepare_call(reg_map, name, inputs, outputs).prepares ]
    /\ UNCHANGED <<reg_map, registered, gret>>
    /\ UNCHANGED not_reg

NoRun == [ called |-> FALSE ]

\* what the caller passes to run_prepared: the PreparedOp check_and_prepare
\* just returned, or one built by hand
Runnable ==
    IF rret.called
    THEN (IF rret.result.kind = "Ok" THEN {rret.result.prepared} ELSE {})
    ELSE CallerPrepared

\* a caller's run_prepared call, from entry to return or panic; the
\* PreparedOp is moved into the call
engine_run_prepared(prepared, choice) ==
    /\ pc = "idle" /\ epc = "idle" /\ KernelIdle
    /\ runs < MaxRuns
    /\ LET W == run_prepared(World, prepared, choice) IN
        /\ main_pool' = W.pool
        /\ cache' = W.cache
        /\ next_obj' = W.next_obj
        /\ compiles' = W.compiles
        /\ klog' = W.klog
        /\ submitted' = W.submitted
        /\ epc' = IF W.status = "Ok" THEN "idle" ELSE "panicked"
        /\ eret' = [ called |-> TRUE, prepared |-> prepared, choice |-> choice,
                     kind |-> W.status, msg |-> W.msg,
                     before |-> main_pool, after |-> W.pool,
                     first |-> Len(submitted), from |-> rret,
                     uploaded |-> written, downloads |-> transfers.download ]
        /\ written' = [ k \in { k \in DOMAIN written :
                                  get(W.pool, k) = get(main_pool, k) } |-> written[k] ]
    /\ runs' = runs + 1
    /\ rret' = NoRet
    /\ UNCHANGED <<staging_upload, staging_download, pc, call, ret, allocated,
                   released, minted, transfers>>
    /\ UNCHANGED <<kpc, kcall, reg_map, registered, gret, handles, call_vars>>

\* the shapes of the output tensors the caller creates
EmptyShapes == { <<n>> : n \in 1..MaxElems } \cup { <<1, MaxElems>> }

\* ExecutionEngine::new; the caller holds no tensor yet
EngineInit ==
    /\ handles = << >>
    /\ submitted = << >>
    /\ epc = "idle"
    /\ eret = NoRun
    /\ runs = 0

\* A caller that creates f32 tensors of one axis (and an i32 one, which "add"
\* refuses) and registers the built-in operations, may release one buffer, prepares and runs, and reads one tensor
\* back after each run.
EngineNext ==
    \/ \E d \in Payload("F32") : Tensor_from_vec("F32", d, <<Len(d)>>, 0)
    \/ \E shape \in EmptyShapes : Tensor_empty("F32", shape, 0)
    \/ Tensor_empty("I32", <<1>>, 0)
    \/ \E t \in Held : transfers.download < runs /\ Tensor_to_vec(t)
    \/ \E t \in Held : released = {} /\ runs = 0 /\ release(t.buffer_id)
    \/ collect_inventory
    \/ runs < MaxRuns /\ call_check_and_prepare_held
    \/ drop_result
    \/ \E p \in Runnable, choice \in SlotChoices : engine_run_prepared(p, choice)

(***************************************************************************)
(* Callers of the tensor layer                                             *)
(***************************************************************************)
\* no function of the tensor layer has been called
NoFn == [ op |-> "none" ]

\* a call of compute_strides
call_compute_strides(shape) ==
    /\ fcall' = [ op |-> "compute_strides", arg |-> shape, kind |-> "Ok",
                  val |-> compute_strides(shape) ]
    /\ UNCHANGED <<mem_vars, kernel_vars, reg_vars, engine_vars, tids, pool_vars>>

\* the shapes passed: every rank up to MaxRank, axes of 1 to MaxDim elements,
\* and for compute_strides empty axes too
Shapes == SeqsUpTo(1..MaxDim, MaxRank)
ShapesWithZero == SeqsUpTo(0..MaxDim, MaxRank)

\* shapes with an empty axis, for Tensor::empty
ZeroShapes == { <<0>>, <<2, 0>>, <<0, 2, 1>> }

DeviceIds == {0, 1}

\* the data passed to from_vec: one element per element of the shape
Data(dt, n) == [ i \in 1..n |-> Element(dt, i) ]

\* A caller that computes the strides of a shape, or holds one small tensor
\* and constructs a second of any shape, element type and device index.
TensorNext ==
    \/ /\ fcall = NoFn
       /\ \E shape \in ShapesWithZero : call_compute_strides(shape)
    \/ /\ handles = << >> /\ fcall = NoFn
       /\ Tensor_from_vec("F32", Data("F32", 1), <<1>>, 0)
    \/ /\ Len(handles) = 1
       /\ \E dt \in DataType, shape \in Shapes \cup ZeroShapes, dev \in DeviceIds :
             Tensor_empty(dt, shape, dev)
    \/ /\ Len(handles) = 1
       /\ \E dt \in DataType, shape \in Shapes, dev \in DeviceIds :
             Tensor_from_vec(dt, Data(dt, Product(shape)), shape, dev)

(***************************************************************************)
(* Invocations of the add shader                                           *)
(***************************************************************************)
\* a ViewDescriptor of the given offset, shape and strides
strided_view(offset, shape, strides) ==
    [ offset |-> offset,
      ndim |-> Len(shape),
      shape |-> [ k \in 1..MAX_DIMS |-> IF k <= Len(shape) THEN shape[k] ELSE 0 ],
      strides |-> [ k \in 1..MAX_DIMS |-> IF k <= Len(shape) THEN strides[k] ELSE 0 ] ]

\* the metadata block AddOp::prepare fills for f32 tensors of the views a, b
\* and c: the three views and the element count of the output
Meta(a, b, c) ==
    AddOp_prepare(<< [Tensor("F32", 0, << >>) EXCEPT !.view = a],
                     [Tensor("F32", 1, << >>) EXCEPT !.view = b] >>,
                  << [Tensor("F32", 2, << >>) EXCEPT !.view = c] >>).task.params[1]

\* the elements an array needs for every view the model passes
ArrayLen == 2 + MaxShaderRank * (MaxDim - 1) * MaxStride

\* the arrays bound: A and B hold different values everywhere, C is new
ArrayA == [ k \in 1..ArrayLen |-> Element("F32", k) ]
ArrayB == [ k \in 1..ArrayLen |-> Element("F32", ArrayLen + k) ]
ArrayC == [ k \in 1..ArrayLen |-> UnspecElem ]

\* one invocation of add_strided with global id i
invoke_add_strided(i, M) ==
    /\ fcall' = [ op |-> "add_strided", arg |-> [ i |-> i, M |-> M ], kind |-> "Ok",
                  val |-> [ ai |-> linear_to_offsets(i, M.a),
                            bi |-> linear_to_offsets(i, M.b),
                            ci |-> linear_to_offsets(i, M.c),
                            C |-> add_strided(i, M, ArrayA, ArrayB, ArrayC) ] ]
    /\ UNCHANGED <<mem_vars, kernel_vars, reg_vars, engine_vars, tids, pool_vars>>

\* the shapes of the operands, and the views of a shape: any offset up to 1
\* and any strides up to MaxStride, 0 (a broadcast axis) included
ShaderShapes == SeqsUpTo(1..MaxDim, MaxShaderRank) \cup { <<0>>, <<2, 0>> }

ViewsOf(shape) ==
    { strided_view(o, shape, st) :
        o \in 0..1, st \in [ 1..Len(shape) -> 0..MaxStride ] }

\* A dispatch of the add shader: a strided first operand, a second operand
\* that is contiguous or one element broadcast along every axis, a
\* contiguous output, and every global id up to one past the element count.
ShaderNext ==
    /\ fcall = NoFn
    /\ \E shape \in ShaderShapes :
         \E a \in ViewsOf(shape),
            b \in { contiguous_view(shape),
                    strided_view(1, shape, [ k \in 1..Len(shape) |-> 0 ]) } :
            LET M == Meta(a, b, contiguous_view(shape)) IN
            \E i \in 0..(M.total_elems + 1) : invoke_add_strided(i, M)

(***************************************************************************)
(* Threads sharing one MemoryManager                                       *)
(***************************************************************************)
\* one finished call of a thread: the method, its argument, the id it returned
ThreadCall(op, size, id) == [ op |-> op, size |-> size, id |-> id ]

\* MemoryManager::allocate_raw called by thread t.  The method takes
\* &mut self, so the threads' calls exclude one another: a call runs from
\* its first line to its return with no other call in between.
thread_allocate_raw(t, size_bytes) ==
    /\ pc = "idle"
    /\ main_pool.next_id < MaxAllocs
    /\ Len(tids[t]) < MaxThreadCalls
    /\ main_pool' = get_buffer(main_pool, size_bytes)
    /\ ret' = Ok("allocate_raw", <<size_bytes>>, get_buffer_id(main_pool))
    /\ allocated' = allocated \cup {get_buffer_id(main_pool)}
    /\ minted' = [minted EXCEPT !.main = Append(@, get_buffer_id(main_pool))]
    /\ written' = [ k \in (DOMAIN written) \ {get_buffer_id(main_pool)} |-> written[k] ]
    /\ tids' = [tids EXCEPT ![t] =
                  Append(@, ThreadCall("allocate_raw", size_bytes, get_buffer_id(main_pool)))]
    /\ UNCHANGED <<staging_upload, staging_download, pc, call, released, transfers>>
    /\ UNCHANGED <<kernel_vars, reg_vars, engine_vars, fcall, pool_vars>>

\* MemoryManager::release called by thread t
thread_release(t, id) ==
    /\ pc = "idle"
    /\ Len(tids[t]) < MaxThreadCalls
    /\ main_pool' = release_buffer(main_pool, id)
    /\ ret' = Ok("release", <<id>>, << >>)
    /\ released' = released \cup ({id} \cap allocated)
    /\ written' = [ k \in (DOMAIN written) \ {id} |-> written[k] ]
    /\ tids' = [tids EXCEPT ![t] = Append(@, ThreadCall("release", 0, id))]
    /\ UNCHANGED <<staging_upload, staging_download, pc, call, allocated, minted,
                   transfers>>
    /\ UNCHANGED <<kernel_vars, reg_vars, engine_vars, fcall, pool_vars>>

\* Threads that allocate and release on the same MemoryManager, in any order.
ThreadNext ==
    \/ \E t \in Threads, s \in Sizes : thread_allocate_raw(t, s)
    \/ \E t \in Threads, id \in CallerIds : thread_release(t, id)

(***************************************************************************)
(* A BufferPool whose methods are called directly                          *)
(***************************************************************************)
\* the id counter wraps at 2^IdBits here (the u64 of the source at 2^64)
PoolIdModulus == 2 ^ IdBits
PoolIds == 0..(PoolIdModulus - 1)

\* what a finished call on the pool leaves in bret
PoolRet(op, arg, kind, v) == [ op |-> op, arg |-> arg, kind |-> kind, val |-> v ]

\* the history of an id: "none" before it is minted, then "live" with the
\* size it was minted with and 1 + inc_ref calls - dec_ref calls that
\* returned Ok, then "released" (with the count it had) or "dropped" (by the
\* last dec_ref) until it is minted again
NoHist == [ state |-> "none", size |-> 0, count |-> 0 ]

\* BufferPool::get_buffer
pool_get_buffer(size_bytes) ==
    /\ bpool' = get_buffer_wrapping(bpool, size_bytes, PoolIdModulus)
    /\ bret' = PoolRet("get_buffer", size_bytes, "Ok", bpool.next_id)
    /\ bhist' = [bhist EXCEPT ![bpool.next_id] =
                    [ state |-> "live", size |-> size_bytes, count |-> 1 ]]
    /\ UNCHANGED <<mem_vars, kernel_vars, reg_vars, engine_vars, tids, fcall>>

\* BufferPool::release_buffer
pool_release_buffer(id) ==
    /\ bpool' = release_buffer(bpool, id)
    /\ bret' = PoolRet("release_buffer", id, "Ok", 0)
    /\ bhist' = [bhist EXCEPT ![id] =
                    IF @.state = "live" THEN [ @ EXCEPT !.state = "released", !.size = 0 ]
                    ELSE @]
    /\ UNCHANGED <<mem_vars, kernel_vars, reg_vars, engine_vars, tids, fcall>>

\* BufferPool::inc_ref
pool_inc_ref(id) ==
    /\ id \in DOMAIN bpool.entries => bpool.entries[id].ref_count < MaxRefs
    /\ bpool' = inc_ref(bpool, id).pool
    /\ bret' = PoolRet("inc_ref", id, IF inc_ref(bpool, id).ok THEN "Ok" ELSE "Err", 0)
    /\ bhist' = [bhist EXCEPT ![id] =
                    IF inc_ref(bpool, id).ok THEN [ @ EXCEPT !.count = @ + 1 ] ELSE @]
    /\ UNCHANGED <<mem_vars, kernel_vars, reg_vars, engine_vars, tids, fcall>>

\* BufferPool::dec_ref
pool_dec_ref(id) ==
    /\ bpool' = dec_ref(bpool, id).pool
    /\ bret' = PoolRet("dec_ref", id, IF dec_ref(bpool, id).ok THEN "Ok" ELSE "Err", 0)
    /\ bhist' = [bhist EXCEPT ![id] =
                    IF dec_ref(bpool, id).ok
                    THEN IF id \in DOMAIN dec_ref(bpool, id).pool.entries
                         THEN [ @ EXCEPT !.count = @ - 1 ]
                         ELSE [ NoHist EXCEPT !.state = "dropped" ]
                    ELSE @]
    /\ UNCHANGED <<mem_vars, kernel_vars, reg_vars, engine_vars, tids, fcall>>

\* BufferPool::get_buffer_size
pool_get_buffer_size(id) ==
    /\ bret' = PoolRet("get_buffer_size", id,
                       IF get_buffer_size(bpool, id).some THEN "Some" ELSE "None",
                       IF get_buffer_size(bpool, id).some
                       THEN get_buffer_size(bpool, id).val ELSE 0)
    /\ UNCHANGED <<bpool, bhist>>
    /\ UNCHANGED <<mem_vars, kernel_vars, reg_vars, engine_vars, tids, fcall>>

\* BufferPool::new
PoolInit ==
    /\ bpool = BufferPool_new
    /\ bret = PoolRet("new", 0, "Ok", 0)
    /\ bhist = [ id \in PoolIds |-> NoHist ]

\* Any sequence of calls on the pool, of any length.
PoolNext ==
    \/ \E s \in Sizes : pool_get_buffer(s)
    \/ \E id \in PoolIds : pool_release_buffer(id)
    \/ \E id \in PoolIds : pool_inc_ref(id)
    \/ \E id \in PoolIds : pool_dec_ref(id)
    \/ \E id \in PoolIds : pool_get_buffer_size(id)

(***************************************************************************)
(* The dispatch arithmetic, on narrow words                                *)
(***************************************************************************)
\* the totals: every value of the word
Totals == 0..(2 ^ WordBits - 1)

\* the axes: empty, small, around the square root of the word's end, large
WordDims == {0, 1, 2, 3, 15, 16, 17, 128, 255}

\* the views whose element count is taken
WordViews == { contiguous_view(shape) : shape \in SeqsUpTo(WordDims, MaxWordRank) }

\* a call of dispatch_size_1d, as dispatch_compute_1d makes it: groups of 64
call_dispatch_size_1d(total, build) ==
    /\ fcall' = [ op |-> "dispatch_size_1d",
                  arg |-> [ total |-> total, build |-> build ],
                  kind |-> dispatch_size_1d_bits(total, 64, WordBits, build).kind,
                  val |-> dispatch_size_1d_bits(total, 64, WordBits, build).val ]
    /\ UNCHANGED <<mem_vars, kernel_vars, reg_vars, engine_vars, tids, pool_vars>>

\* the element count run_gpu_task computes for a view
call_run_gpu_task_total(vd, build) ==
    /\ fcall' = [ op |-> "run_gpu_task",
                  arg |-> [ view |-> vd, build |-> build ],
                  kind |-> run_gpu_task_total(vd, WordBits, build).kind,
                  val |-> run_gpu_task_total(vd, WordBits, build).val ]
    /\ UNCHANGED <<mem_vars, kernel_vars, reg_vars, engine_vars, tids, pool_vars>>

\* the element count AddOp::prepare computes for a view
call_AddOp_prepare_total(view, build) ==
    /\ fcall' = [ op |-> "AddOp::prepare",
                  arg |-> [ view |-> view, build |-> build ],
                  kind |-> AddOp_prepare_total(view, WordBits, build).kind,
                  val |-> AddOp_prepare_total(view, WordBits, build).val ]
    /\ UNCHANGED <<mem_vars, kernel_vars, reg_vars, engine_vars, tids, pool_vars>>

\* One call of any of the three computations, on any input, in either build.
WordNext ==
    \/ /\ fcall = NoFn
       /\ \E total \in Totals, build \in Builds : call_dispatch_size_1d(total, build)
    \/ /\ fcall = NoFn
       /\ \E vd \in WordViews, build \in Builds : call_run_gpu_task_total(vd, build)
    \/ /\ fcall = NoFn
       /\ \E view \in WordViews, build \in Builds : call_AddOp_prepare_total(view, build)

\* no thread has called the shared MemoryManager yet
CallInit ==
    /\ tids = [ t \in Threads |-> << >> ]
    /\ fcall = NoFn

Init == MemInit /\ KernelInit /\ RegInit /\ EngineInit /\ CallInit /\ PoolInit

\* The memory manager driven by one caller (its methods take &mut self).
Spec == Init /\ [][MemNext]_vars

\* The kernel cache with its get calls made one after another.
SpecKernelSeq == Init /\ [][KernelSeqNext]_vars

\* The kernel cache called by several threads at once.
SpecKernel == Init /\ [][KernelNext]_vars

\* The operation registry.
SpecRegistry == Init /\ [][RegNext]_vars

\* The execution engine with its caller, the memory manager, the kernel cache
\* and the registry behind it.
SpecEngine == Init /\ [][EngineNext]_vars

\* The tensor layer: compute_strides and the constructors.
SpecTensor == Init /\ [][TensorNext]_vars

\* The memory manager shared by several threads (behind a lock: &mut self).
SpecThreads == Init /\ [][ThreadNext]_vars

\* The add shader, one invocation at a time.
SpecShader == Init /\ [][ShaderNext]_vars

\* One buffer pool with a narrow id counter, called directly.
SpecPool == Init /\ [][PoolNext]_vars

\* The dispatch arithmetic on narrow words.
SpecWord == Init /\ [][WordNext]_vars

(***************************************************************************)
(* Properties of the memory manager                                        *)
(***************************************************************************)
Pools == {"main", "upload", "download"}

\* C1: an id returned by allocate_raw resolves (get_ref is Some) in every state
\* until release(id) is called, and does not resolve (get_ref is None) in every
\* state after, whatever is done to other ids and whatever transfer is under way.
C1_BufferLifecycle ==
    \A id \in allocated :
        IF id \in released THEN get_ref(id) = None ELSE get_ref(id).some

\* an id released and another still live, after an upload went through
C1_Witness ==
    /\ \E a, b \in allocated : a \in released /\ b \notin released
    /\ \E id \in DOMAIN written : TRUE

\* C2: in each pool, get_buffer never returns an id it returned before, whether
\* or not that id has been released since.
C2_IdFreshness ==
    \A p \in Pools :
        \A i, j \in 1..Len(minted[p]) : i # j => minted[p][i] # minted[p][j]

\* the main pool mints id 1 after id 0 was released
C2_Witness ==
    /\ 0 \in released
    /\ ret.op = "allocate_raw"
    /\ ret.val = 1
    /\ minted.main = <<0, 1>>

\* C3: when no transfer is under way both staging pools are empty, and each
\* transfer made so far has allocated exactly one staging buffer.
C3_StagingEmptyWhenIdle ==
    pc = "idle" =>
        /\ staging_upload.entries = << >>
        /\ staging_download.entries = << >>
        /\ Len(minted.upload) = transfers.write
        /\ Len(minted.download) = transfers.download

\* a download has just returned, after an upload
C3_Witness ==
    /\ pc = "idle"
    /\ ret.op = "download_raw"
    /\ ret.kind = "Ok"
    /\ transfers.write > 0

\* C4: a write_to_buffer or download_raw call on an id that is not live in the
\* main pool ends with an error value, and the three pools then hold exactly
\* the entries they held before the call.
C4_NoLeakOnErrorPath ==
    (pc \in {"idle", "panicked"} /\ call.dead) =>
        /\ ret.kind = "Err"
        /\ PoolEntries = call.before

\* C5: a download_raw<T> of a buffer allocated with the byte length of a
\* payload of T and last written with that payload returns the payload.
C5_RoundTrip ==
    (/\ pc = "idle"
     /\ ret.op = "download_raw"
     /\ ret.kind = "Ok"
     /\ ret.arg[1] \in DOMAIN written
     /\ written[ret.arg[1]].dtype = ret.arg[2]
     /\ get_buffer_size(main_pool, ret.arg[1])
          = Some(Len(written[ret.arg[1]].data) * size_in_bytes(ret.arg[2])))
    => ret.val = written[ret.arg[1]].data

\* a payload of two elements came back, from a buffer of its size
C5_Witness ==
    /\ pc = "idle"
    /\ ret.op = "download_raw"
    /\ ret.kind = "Ok"
    /\ ret.arg[1] \in DOMAIN written
    /\ written[ret.arg[1]].dtype = ret.arg[2]
    /\ Len(written[ret.arg[1]].data) = 2
    /\ get_buffer_size(main_pool, ret.arg[1]) = Some(8)
    /\ ret.val = written[ret.arg[1]].data

(***************************************************************************)
(* Properties of the kernel cache                                          *)
(***************************************************************************)
\* the keys the finished get calls asked for
Requested == { klog[i].args : i \in 1..Len(klog) }

\* C6: of two get calls made one after another with the same source, entry
\* point, dtype lists and slot count, the later returns the very pipeline and
\* layout the earlier returned and compiles nothing; once every call has
\* returned, the compilations made are as many as the distinct keys asked for.
C6_CacheIdentity ==
    /\ \A i, j \in 1..Len(klog) :
          (i < j /\ klog[i].args = klog[j].args) =>
              /\ klog[j].pipeline.obj = klog[i].pipeline.obj
              /\ klog[j].layout.obj = klog[i].layout.obj
              /\ ~klog[j].built
    /\ KernelIdle => compiles = Cardinality(Requested)

\* the second of two calls with one key has returned
C6_Witness ==
    /\ Len(klog) = 2
    /\ klog[1].args = klog[2].args
    /\ klog[1].built
    /\ compiles = 1

\* C7: get calls whose keys differ in any field return different pipelines and
\* layouts; once every call has returned the cache holds one entry per distinct
\* key asked for, and each entry is still the one its call returned.
C7_StructuralKey ==
    /\ \A i, j \in 1..Len(klog) :
          klog[i].args # klog[j].args =>
              /\ klog[i].pipeline.obj # klog[j].pipeline.obj
              /\ klog[i].layout.obj # klog[j].layout.obj
    /\ KernelIdle =>
          /\ Cardinality(DOMAIN cache) = Cardinality(Requested)
          /\ \A i \in 1..Len(klog) :
                \E k \in DOMAIN cache :
                    /\ cache[k].pipeline = klog[i].pipeline
                    /\ cache[k].layout = klog[i].layout
                    /\ k = KernelKey(klog[i].args.src, klog[i].args.entry,
                                     klog[i].args.t_in, klog[i].args.t_out,
                                     klog[i].args.p_len)

\* two calls that differ in the input dtypes alone have both returned
C7_Witness ==
    /\ Len(klog) = 2
    /\ klog[1].args.t_in # klog[2].args.t_in
    /\ [klog[1].args EXCEPT !.t_in = << >>] = [klog[2].args EXCEPT !.t_in = << >>]
    /\ Cardinality(DOMAIN cache) = 2

(***************************************************************************)
(* Properties of the operation registry                                    *)
(***************************************************************************)
\* the call in rret was made on a registered name (registering clears rret,
\* so reg_map is the map the call saw)
CalledRegistered == rret.called /\ rret.name \in DOMAIN reg_map

CalledSig == reg_map[rret.name].sig

ArityCorrect ==
    /\ Len(rret.inputs) = CalledSig.num_inputs
    /\ Len(rret.outputs) = CalledSig.num_outputs

\* the slots of the call, inputs then outputs, each with its position in its
\* own list (from 0), its allowed element types and the element type found
CalledSlots ==
    [ k \in 1..Len(rret.inputs) |->
        [ index |-> k - 1, expected |-> CalledSig.input_dtypes[k],
          found |-> rret.inputs[k].dtype ] ]
    \o
    [ k \in 1..Len(rret.outputs) |->
        [ index |-> k - 1, expected |-> CalledSig.output_dtypes[k],
          found |-> rret.outputs[k].dtype ] ]

Offending == { k \in 1..Len(CalledSlots) : CalledSlots[k].found \notin CalledSlots[k].expected }

FirstOffending == CHOOSE k \in Offending : \A m \in Offending : k <= m

\* C8: on a registered name, a wrong number of inputs or a wrong number of
\* outputs is answered with ArityMismatch, whatever the element types of the
\* tensors are: both arities are checked before any dtype check.
C8_ArityBeforeDtype ==
    (CalledRegistered /\ ~ArityCorrect) => rret.result.kind = "ArityMismatch"

\* C9: on a registered name with the right number of inputs and outputs, the
\* call returns DtypeMismatch exactly when some slot's element type is not in
\* the slot's allowed set, and index, expected and found are those of the
\* first such slot, inputs scanned in order before outputs.
C9_FirstOffendingSlot ==
    (CalledRegistered /\ ArityCorrect) =>
        IF Offending = {}
        THEN rret.result.kind # "DtypeMismatch"
        ELSE rret.result =
                 DtypeMismatch(rret.name, CalledSlots[FirstOffending].index,
                               CalledSlots[FirstOffending].expected,
                               CalledSlots[FirstOffending].found)

\* "add" called with a good first input, a bad second input and a bad output:
\* the second input is the slot reported
C9_Witness ==
    /\ CalledRegistered /\ ArityCorrect
    /\ rret.name = "add"
    /\ Offending = {2, 3}
    /\ rret.result.kind = "DtypeMismatch"
    /\ rret.result.index = 1

\* C10: the call returns UnknownOp exactly when the name is not registered,
\* and the error carries the name that was asked for.
C10_UnknownOp ==
    rret.called =>
        /\ rret.result.kind = "UnknownOp" <=> rret.name \notin DOMAIN reg_map
        /\ rret.result.kind = "UnknownOp" => rret.result.name = rret.name

\* a name nobody registered, asked of a registry that holds operations, with
\* tensors that would fit "add"
C10_Witness ==
    /\ rret.called
    /\ rret.name = "extremely_strange_op"
    /\ "add" \in DOMAIN reg_map
    /\ Len(rret.inputs) = 2 /\ Len(rret.outputs) = 1
    /\ rret.result = UnknownOp("extremely_strange_op")
\* every check of the call passes: the name is registered, both counts are
\* right and no slot offends
AllChecksPass == CalledRegistered /\ ArityCorrect /\ Offending = {}

\* C11: prepare is invoked only when the lookup, both arity checks and every
\* dtype check have passed; exactly once when the call succeeds and never when
\* it returns an error.
C11_ValidationPrecedesPrepare ==
    rret.called =>
        /\ rret.prepares \in {0, 1}
        /\ rret.prepares = 1 <=> AllChecksPass
        /\ rret.result.kind = "Ok" <=> rret.prepares = 1

\* "add" is prepared once for a valid call, and a call whose inputs are valid
\* but whose output is of the wrong type prepares nothing
C11_Witness ==
    /\ rret.called /\ rret.name = "add"
    /\ CalledRegistered /\ ArityCorrect
    /\ Offending = {3}
    /\ rret.prepares = 0
    /\ rret.result.kind = "DtypeMismatch"
(***************************************************************************)
(* Properties of the execution engine and its collaborators                *)
(***************************************************************************)
\* C12: a check_and_prepare call that returns an error changes neither the
\* registry's map, nor any of the three buffer pools, nor the kernel cache,
\* and submits nothing to the device.
C12_ErrorsLeaveStateUntouched ==
    [][ (~rret.called /\ rret'.called /\ rret'.result.kind # "Ok") =>
            /\ reg_map' = reg_map
            /\ main_pool' = main_pool
            /\ staging_upload' = staging_upload
            /\ staging_download' = staging_download
            /\ cache' = cache
            /\ submitted' = submitted ]_vars

\* a refused call on a registry that holds "add", with live buffers in the
\* main pool
C12_Witness ==
    /\ rret.called
    /\ rret.result.kind \in {"ArityMismatch", "DtypeMismatch"}
    /\ "add" \in DOMAIN reg_map
    /\ Cardinality(DOMAIN main_pool.entries) >= 2

RECURSIVE Leaves(_)
\* the Gpu tasks of a PreparedOp tree, depth-first, left to right
Leaves(p) ==
    IF p.kind = "Gpu" THEN <<p.task>>
    ELSE IF p.ops = << >> THEN << >>
    ELSE Leaves(Head(p.ops)) \o Leaves(Composite(Tail(p.ops)))

\* the dispatches the last run_prepared call submitted
NewDispatches == SubSeq(submitted, eret.first + 1, Len(submitted))

\* every buffer id of the task is live in the pool
TaskLive(task, pool) ==
    /\ \A i \in 1..Len(task.input_ids) : task.input_ids[i] \in DOMAIN pool.entries
    /\ \A i \in 1..Len(task.output_ids) : task.output_ids[i] \in DOMAIN pool.entries

\* the task can be dispatched: its buffers are live and it has a first output
TaskRuns(task, pool) == TaskLive(task, pool) /\ task.output_descs # << >>

\* the position of the first task of the last run that cannot be dispatched,
\* 0 when every task can
FirstFailing ==
    LET ls == Leaves(eret.prepared)
        bad == { k \in 1..Len(ls) : ~TaskRuns(ls[k], eret.before) }
    IN  IF bad = {} THEN 0 ELSE CHOOSE k \in bad : \A m \in bad : k <= m

\* C13: a run all of whose tasks can be dispatched succeeds and submits
\* exactly one dispatch per Gpu leaf, in depth-first, left-to-right order of
\* the tree; an empty Composite submits nothing and succeeds.
C13_CompositeOrder ==
    (eret.called /\ FirstFailing = 0) =>
        LET ls == Leaves(eret.prepared) IN
        /\ eret.kind = "Ok"
        /\ Len(NewDispatches) = Len(ls)
        /\ \A k \in 1..Len(ls) :
              /\ NewDispatches[k].pipeline.src = ls[k].pipeline_source
              /\ NewDispatches[k].pipeline.entry = ls[k].entry_point
              /\ NewDispatches[k].bound = ls[k].input_ids \o ls[k].output_ids

\* a nested tree of three tasks with an empty Composite inside
C13_Witness ==
    /\ eret.called /\ eret.kind = "Ok"
    /\ eret.prepared.kind = "Composite"
    /\ Len(eret.prepared.ops) = 3
    /\ eret.prepared.ops[2] = Composite(<< >>)
    /\ Len(NewDispatches) = 3
    /\ NewDispatches[1].bound # NewDispatches[2].bound
\* C14: when a sub-operation of a Composite fails, run_prepared returns that
\* first failure as an error value, has submitted the dispatches of the
\* sub-operations before it and of none after it, and the buffer writes of
\* those dispatches stay.
C14_CompositeFailFast ==
    (eret.called /\ eret.prepared.kind = "Composite" /\ FirstFailing # 0) =>
        /\ eret.kind = "Err"
        /\ Len(NewDispatches) = FirstFailing - 1

\* C15: a Gpu task one of whose buffer ids is not live makes run_prepared
\* return a missing-buffer error value (no abort), with no dispatch submitted
\* for the task and the main pool as before the call.
C15_MissingBufferIsAnError ==
    (eret.called /\ eret.prepared.kind = "Gpu"
       /\ ~TaskLive(eret.prepared.task, eret.before)) =>
        /\ eret.kind = "Err"
        /\ NewDispatches = << >>
        /\ eret.after = eret.before

\* C16: running a Gpu task with k parameter blobs allocates exactly k fresh
\* main-pool buffers (the id counter advances by k), binds them in the
\* dispatch, and releases them: the live ids after the call are those before.
C16_ParameterBuffers ==
    (eret.called /\ eret.prepared.kind = "Gpu" /\ FirstFailing = 0) =>
        LET k == Len(eret.prepared.task.params) IN
        /\ eret.after.next_id = eret.before.next_id + k
        /\ DOMAIN eret.after.entries = DOMAIN eret.before.entries
        /\ Len(NewDispatches) = 1
        /\ Len(NewDispatches[1].bound) =
              Len(eret.prepared.task.input_ids) + k + Len(eret.prepared.task.output_ids)

\* C17: every dispatch of a run binds the task's inputs at the first n_in
\* slots, then p parameter buffers, then its outputs at the last n_out slots,
\* and binds as many buffers as the layout from the kernel cache has slots:
\* n_in + p read-only slots followed by n_out read-write slots.
C17_BindingOrderAndCount ==
    (eret.called /\ FirstFailing = 0) =>
        LET ls == Leaves(eret.prepared) IN
        /\ Len(NewDispatches) = Len(ls)
        /\ \A i \in 1..Len(ls) :
              LET dsp   == NewDispatches[i]
                  n_in  == Len(ls[i].input_ids)
                  n_p   == Len(ls[i].params)
                  n_out == Len(ls[i].output_ids)
              IN  /\ Len(dsp.bound) = n_in + n_p + n_out
                  /\ SubSeq(dsp.bound, 1, n_in) = ls[i].input_ids
                  /\ SubSeq(dsp.bound, n_in + n_p + 1, n_in + n_p + n_out) = ls[i].output_ids
                  /\ Len(dsp.layout.slots) = Len(dsp.bound)
                  /\ \A j \in 1..Len(dsp.layout.slots) :
                        dsp.layout.slots[j] =
                            IF j <= n_in + n_p THEN "read_only" ELSE "read_write"

RECURSIVE ShapeProduct(_, _)
\* shape[0] * ... * shape[k-1], 1 for k = 0
ShapeProduct(shape, k) ==
    IF k = 0 THEN 1 ELSE shape[k] * ShapeProduct(shape, k - 1)

\* the least g with g * 64 >= total
CeilGroups(total) ==
    CHOOSE g \in 0..total : 64 * g >= total /\ \A h \in 0..(g - 1) : 64 * h < total

\* C18: the work-item count of every dispatch is the product of
\* shape[0..ndim] of the task's first output view (1 for rank 0; entries past
\* ndim do not count), and the number of work groups is the least g with
\* g * 64 >= total.
C18_DispatchSize ==
    (eret.called /\ FirstFailing = 0) =>
        LET ls == Leaves(eret.prepared) IN
        \A i \in 1..Len(NewDispatches) :
            LET vd == ls[i].output_descs[1] IN
            /\ NewDispatches[i].total_elems = ShapeProduct(vd.shape, vd.ndim)
            /\ NewDispatches[i].x = CeilGroups(NewDispatches[i].total_elems)

\* a dispatch of 65 work items in two groups
C18_Witness ==
    /\ eret.called /\ eret.kind = "Ok"
    /\ Len(NewDispatches) = 1
    /\ NewDispatches[1].total_elems = 65
    /\ NewDispatches[1].x = 2
\* C19: "add" publishes two inputs and one output, and a valid call's prepare
\* returns one Gpu task whose input ids are the buffer ids of the two inputs
\* in argument order, whose output id is that of the output, whose views and
\* element types are those of the same tensors in the same order, and whose
\* element count is the product of the output's shape; run, it is one
\* dispatch of that many work items.
C19_AddPrepare ==
    /\ (rret.called /\ rret.name = "add" /\ rret.result.kind = "Ok") =>
          LET sig == reg_map["add"].sig
              p   == rret.result.prepared
              a   == rret.inputs[1]
              b   == rret.inputs[2]
              c   == rret.outputs[1]
          IN  /\ sig.num_inputs = 2 /\ sig.num_outputs = 1
              /\ Len(rret.inputs) = 2 /\ Len(rret.outputs) = 1
              /\ p.kind = "Gpu"
              /\ p.task.input_ids = <<a.buffer_id, b.buffer_id>>
              /\ p.task.output_ids = <<c.buffer_id>>
              /\ p.task.input_descs = <<a.view, b.view>>
              /\ p.task.output_descs = <<c.view>>
              /\ p.task.input_types = <<a.dtype, b.dtype>>
              /\ p.task.output_types = <<c.dtype>>
              /\ Len(p.task.params) = 1
              /\ p.task.params[1].total_elems = ShapeProduct(c.view.shape, c.view.ndim)
    /\ (eret.called /\ eret.from.called /\ eret.kind = "Ok") =>
          /\ Len(NewDispatches) = 1
          /\ NewDispatches[1].total_elems =
                ShapeProduct(eret.from.outputs[1].view.shape,
                             eret.from.outputs[1].view.ndim)

\* a valid call on three different tensors, the output of two axes and of
\* another shape than the first input
C19_Witness ==
    /\ rret.called /\ rret.name = "add" /\ rret.result.kind = "Ok"
    /\ rret.inputs[1].buffer_id # rret.inputs[2].buffer_id
    /\ rret.outputs[1].buffer_id \notin
          {rret.inputs[1].buffer_id, rret.inputs[2].buffer_id}
    /\ rret.outputs[1].view.ndim = 2
    /\ rret.outputs[1].view # rret.inputs[1].view
    /\ rret.result.prepared.task.params[1].total_elems = MaxElems

\* the number a positive normal f32 bit pattern stands for, times 2^23, for
\* exponents from 0 (biased 127) up
F32Scaled(w) ==
    ((w % 8388608) + 8388608) * (2 ^ ((w \div 8388608) - 127))

\* C20: for contiguous a and b of one shape [n] holding uploaded values and
\* an output c of shape [n], check_and_prepare("add", [a,b], [c]), then
\* run_prepared, then a download of c gives c[i] = a[i] + b[i] for every i,
\* and a and b hold what they held.
C20_EndToEndAdd ==
    (/\ eret.called /\ eret.from.called /\ eret.from.name = "add"
     /\ ret.kind = "Ok" /\ ret.op = "download_raw"
     /\ ret.arg = <<eret.from.outputs[1].buffer_id, "F32">>
     /\ LET a == eret.from.inputs[1]
            b == eret.from.inputs[2]
            c == eret.from.outputs[1]
        IN  /\ a.view.ndim = 1 /\ a.view = b.view /\ b.view = c.view
            /\ a.view = contiguous_view(<<a.view.shape[1]>>)
            /\ c.buffer_id \notin {a.buffer_id, b.buffer_id}
            /\ \A t \in {a, b} :
                  /\ get(eret.before, t.buffer_id).some
                  /\ LET T == cast_slice_u8("F32",
                                     get(eret.before, t.buffer_id).val.data)
                     IN  \A i \in 1..Len(T) : T[i] # UnspecElem)
    =>
        LET a == eret.from.inputs[1]
            b == eret.from.inputs[2]
            A == cast_slice_u8("F32", get(eret.before, a.buffer_id).val.data)
            B == cast_slice_u8("F32", get(eret.before, b.buffer_id).val.data)
        IN  /\ Len(ret.val) = a.view.shape[1]
            /\ \A i \in 1..Len(ret.val) :
                  /\ ret.val[i] # UnspecElem
                  /\ F32Scaled(ret.val[i]) = F32Scaled(A[i]) + F32Scaled(B[i])
            /\ get(main_pool, a.buffer_id) = get(eret.before, a.buffer_id)
            /\ get(main_pool, b.buffer_id) = get(eret.before, b.buffer_id)
\* the buffer ids the tasks of the last run name
RunIds ==
    UNION { { t.input_ids[i] : i \in 1..Len(t.input_ids) }
              \cup { t.output_ids[i] : i \in 1..Len(t.output_ids) } :
            t \in { Leaves(eret.prepared)[k] : k \in 1..Len(Leaves(eret.prepared)) } }

RECURSIVE Replay(_, _)
\* what the buffers hold, as numbers, after the three-binding add tasks ls are
\* executed one after the other on the values vals
Replay(vals, ls) ==
    IF ls = << >> THEN vals
    ELSE LET t == Head(ls) IN
         Replay([ vals EXCEPT ![t.output_ids[1]] =
                    [ i \in 1..Len(@) |->
                        vals[t.input_ids[1]][i] + vals[t.input_ids[2]][i] ] ],
                Tail(ls))

\* the last run returned, each of its dispatches was accepted and ran at least
\* one work group, and every buffer it names had the same number of elements
\* uploaded by a write_to_buffer that returned before the run
UploadedRun ==
    /\ eret.called /\ eret.kind = "Ok"
    /\ Leaves(eret.prepared) # << >>
    /\ Len(NewDispatches) = Len(Leaves(eret.prepared))
    /\ \A k \in 1..Len(NewDispatches) : NewDispatches[k].valid /\ NewDispatches[k].x >= 1
    /\ RunIds \subseteq DOMAIN eret.uploaded
    /\ \A id \in RunIds :
          /\ eret.uploaded[id].dtype = "F32"
          /\ \A other \in RunIds :
                Len(eret.uploaded[id].data) = Len(eret.uploaded[other].data)
          /\ get_buffer_size(eret.before, id) = Some(4 * Len(eret.uploaded[id].data))

\* the numbers the run must leave in the buffer id
Expected(id) ==
    Replay([ k \in RunIds |->
               [ i \in 1..Len(eret.uploaded[k].data) |->
                   F32Scaled(eret.uploaded[k].data[i]) ] ],
           Leaves(eret.prepared))[id]

\* C21: commands take effect in submission order: a dispatch submitted after
\* write_to_buffer(x, d) returned reads d from x, a later sub-operation of a
\* Composite reads what an earlier one wrote, and a download_raw issued after
\* run_prepared returned observes the writes of every dispatch of the run.
C21_ReadAfterWrite ==
    UploadedRun =>
        /\ \A id \in RunIds :
              LET words == buffer_words(get(eret.after, id).val) IN
              /\ Len(words) = Len(Expected(id))
              /\ \A i \in 1..Len(words) :
                    /\ words[i] # UnspecElem
                    /\ F32Scaled(words[i]) = Expected(id)[i]
        /\ (/\ ret.op = "download_raw" /\ ret.kind = "Ok"
            /\ transfers.download > eret.downloads
            /\ ret.arg[1] \in RunIds /\ ret.arg[2] = "F32") =>
              /\ Len(ret.val) = Len(Expected(ret.arg[1]))
              /\ \A i \in 1..Len(ret.val) :
                    /\ ret.val[i] # UnspecElem
                    /\ F32Scaled(ret.val[i]) = Expected(ret.arg[1])[i]

\* a Composite whose second task reads the output of its first was run on
\* uploaded buffers, and the output of the second was downloaded afterwards
C21_Witness ==
    /\ UploadedRun
    /\ Len(Leaves(eret.prepared)) >= 2
    /\ Leaves(eret.prepared)[2].input_ids[1] = Leaves(eret.prepared)[1].output_ids[1]
    /\ ret.op = "download_raw" /\ ret.kind = "Ok"
    /\ transfers.download > eret.downloads
    /\ ret.arg[1] = Leaves(eret.prepared)[2].output_ids[1]
    /\ Len(ret.val) = MaxElems
\* C22: compute_strides returns row-major strides: as many as the shape has
\* axes, the last one 1, each other one the product of its right neighbour
\* and that neighbour's axis length; none for the empty shape.
C22_RowMajorStrides ==
    fcall.op = "compute_strides" =>
        LET s == fcall.arg
            strides == fcall.val
        IN  /\ Len(strides) = Len(s)
            /\ (s = << >> => strides = << >>)
            /\ (Len(s) >= 1 => strides[Len(s)] = 1)
            /\ \A i \in 1..(Len(s) - 1) : strides[i] = strides[i + 1] * s[i + 1]

\* the strides of a shape of full rank whose axes are not all alike
C22_Witness ==
    /\ fcall.op = "compute_strides"
    /\ Len(fcall.arg) = MAX_DIMS
    /\ fcall.arg[MAX_DIMS] = 2 /\ fcall.arg[MAX_DIMS - 1] = 1 /\ fcall.arg[2] = 2
    /\ fcall.val[1] > fcall.val[MAX_DIMS - 2]
    /\ fcall.val[MAX_DIMS - 2] = 2

\* the number of elements right of axis i of a shape
ElementsRightOf(shape, i) ==
    ShapeProduct([ k \in 1..(Len(shape) - i) |-> shape[i + k] ], Len(shape) - i)

\* C23: for a shape of at most MAX_DIMS axes Tensor::empty and
\* Tensor::from_vec return a handle whose buffer is live in the main pool with
\* product(shape) * element size bytes, whose dtype is that of T, whose
\* device_id is the argument, and whose view has offset 0, ndim = rank, the
\* shape and its row-major strides in the first ndim entries and 0 in the rest.
C23_TensorConstruction ==
    (fcall.op \in {"Tensor::empty", "Tensor::from_vec"} /\ Len(fcall.arg[2]) <= MAX_DIMS) =>
        LET dt == fcall.arg[1]
            shape == fcall.arg[2]
            t == fcall.val
        IN  /\ fcall.kind = "Ok"
            /\ t = handles[Len(handles)]
            /\ get_buffer_size(main_pool, t.buffer_id)
                  = Some(ShapeProduct(shape, Len(shape)) * size_in_bytes(dt))
            /\ get(main_pool, t.buffer_id).some
            /\ t.dtype = dt
            /\ t.device_id = fcall.arg[3]
            /\ t.view.offset = 0
            /\ t.view.ndim = Len(shape)
            /\ \A i \in 1..MAX_DIMS :
                  IF i <= Len(shape)
                  THEN /\ t.view.shape[i] = shape[i]
                       /\ t.view.strides[i] = ElementsRightOf(shape, i)
                  ELSE /\ t.view.shape[i] = 0
                       /\ t.view.strides[i] = 0

\* a second tensor of full rank and more than one element, on device 1
C23_Witness ==
    /\ fcall.op = "Tensor::from_vec" /\ fcall.kind = "Ok"
    /\ Len(fcall.arg[2]) = MAX_DIMS
    /\ fcall.arg[3] = 1
    /\ fcall.arg[1] = "U32"
    /\ fcall.val.view.strides[1] >= 4
    /\ fcall.val.buffer_id = 1
\* a step that is a call release(id) of the caller (or leaves the state as
\* such a call left it)
ReleaseCall(id) ==
    /\ pc = "idle"
    /\ ret'.op = "release" /\ ret'.arg = <<id>>
    /\ released' = released \cup ({id} \cap allocated)
    /\ UNCHANGED <<staging_upload, staging_download, call, allocated, minted, transfers>>

\* C24: release(id) on an id that is unknown or already released returns
\* normally and leaves the pool's entries and its id counter as they were (so
\* a second release(id) adds nothing to the first), and a release never
\* touches the entry of another id.
C24_ReleaseIdempotent ==
    [][ \A id \in CallerIds :
          ReleaseCall(id) =>
            /\ ret'.kind = "Ok" /\ pc' = "idle"
            /\ main_pool'.next_id = main_pool.next_id
            /\ (id \notin DOMAIN main_pool.entries => main_pool' = main_pool)
            /\ id \notin DOMAIN main_pool'.entries
            /\ \A k \in (DOMAIN main_pool.entries) \ {id} :
                  /\ k \in DOMAIN main_pool'.entries
                  /\ main_pool'.entries[k] = main_pool.entries[k]
            /\ DOMAIN main_pool'.entries \subseteq DOMAIN main_pool.entries
      ]_vars

\* release was called on an id that was never allocated, after another id
\* was released, while a buffer is live
C24_Witness ==
    /\ ret.op = "release" /\ ret.kind = "Ok"
    /\ ret.arg[1] \notin allocated
    /\ released # {}
    /\ DOMAIN main_pool.entries # {}

(***************************************************************************)
(* Properties of the memory manager shared by threads                      *)
(***************************************************************************)
\* the allocate_raw calls finished so far: <<thread, position in its calls>>
ThreadAllocs ==
    { c \in Threads \X (1..MaxThreadCalls) :
        /\ c[2] <= Len(tids[c[1]])
        /\ tids[c[1]][c[2]].op = "allocate_raw" }

RECURSIVE CallsUpTo(_)
\* the calls finished by the threads 1..n
CallsUpTo(n) == IF n = 0 THEN 0 ELSE Len(tids[n]) + CallsUpTo(n - 1)

ThreadCallCount == CallsUpTo(NumThreads)

\* the orders in which the finished calls can be put one after another, each
\* thread's calls in the order it made them
ThreadOrders ==
    { o \in [ 1..ThreadCallCount -> Threads ] :
        \A t \in Threads : Cardinality({ i \in DOMAIN o : o[i] = t }) = Len(tids[t]) }

RECURSIVE RunOrder(_, _, _)
\* the calls made one after another in the order o on the pool: the pool
\* they leave, and whether every allocate_raw returned the id its thread got
RunOrder(o, done, pool) ==
    IF o = << >> THEN [ same |-> TRUE, pool |-> pool ]
    ELSE LET t == Head(o)
             c == tids[t][done[t] + 1]
             rest == [done EXCEPT ![t] = @ + 1]
         IN  IF c.op = "allocate_raw"
             THEN IF get_buffer_id(pool) # c.id
                  THEN [ same |-> FALSE, pool |-> pool ]
                  ELSE RunOrder(Tail(o), rest, get_buffer(pool, c.size))
             ELSE RunOrder(Tail(o), rest, release_buffer(pool, c.id))

\* C25: when several threads allocate (and release) on the same
\* MemoryManager in any interleaving, no two allocate_raw calls receive the
\* same id, every allocated entry that was not released is in the pool with
\* the size asked for, and the pool is the one that some sequential order of
\* the same calls (each returning the same id) leaves.
C25_AllocLinearizable ==
    /\ \A c, e \in ThreadAllocs :
          c # e => tids[c[1]][c[2]].id # tids[e[1]][e[2]].id
    /\ \A c \in ThreadAllocs :
          LET a == tids[c[1]][c[2]] IN
          a.id \notin released =>
             /\ a.id \in DOMAIN main_pool.entries
             /\ main_pool.entries[a.id].size = a.size
    /\ \E o \in ThreadOrders :
          LET r == RunOrder(o, [ t \in Threads |-> 0 ], BufferPool_new) IN
          r.same /\ r.pool = main_pool

\* both threads have allocated, one before and one after a call of the
\* other thread, and both entries are in the pool
C25_Witness ==
    /\ \A t \in Threads : \E i \in 1..Len(tids[t]) : tids[t][i].op = "allocate_raw"
    /\ Len(tids[1]) >= 2
    /\ tids[1][1].op = "release"
    /\ tids[1][2].id = 1
    /\ Cardinality(DOMAIN main_pool.entries) = 2

\* C26: preparing the registered "add" operation (AddOp) with two f32
\* inputs and one f32 output yields a Gpu task with exactly one output
\* descriptor and whose entry point is "add_kernel".
C26_AddEntryPoint ==
    (/\ rret.called /\ rret.name = "add"
     /\ "add" \in DOMAIN reg_map /\ reg_map["add"] = AddOp
     /\ rret.result.kind = "Ok") =>
        /\ rret.result.prepared.kind = "Gpu"
        /\ Len(rret.result.prepared.task.output_descs) = 1
        /\ rret.result.prepared.task.entry_point = "add_kernel"

(***************************************************************************)
(* Properties of the kernel cache called by several threads                *)
(***************************************************************************)
\* the key of the i-th finished get call
LogKey(i) ==
    KernelKey(klog[i].args.src, klog[i].args.entry, klog[i].args.t_in,
              klog[i].args.t_out, klog[i].args.p_len)

\* the calls finished before the i-th that inserted under its key (a call
\* that hits finishes at its lookup, one that misses at its insert)
InsertsBefore(i) ==
    { j \in 1..(i - 1) : LogKey(j) = LogKey(i) /\ klog[j].built }

Latest(S) == CHOOSE j \in S : \A k \in S : k <= j

\* the compilations made so far for a key: by finished calls and by calls
\* that have compiled and not yet inserted
CompilesFor(key) ==
    Cardinality({ i \in 1..Len(klog) : LogKey(i) = key /\ klog[i].built })
    + Cardinality({ t \in Threads : kpc[t] = "insert" /\ kcall[t].key = key })

\* C27 (as stated): in any interleaving of get calls from several threads,
\* every two calls with the same key, overlapping or not, return the
\* reference-identical pipeline and layout, and the shader is compiled at
\* most once for that key.
C27_OneBundlePerKey ==
    /\ \A i, j \in 1..Len(klog) :
          LogKey(i) = LogKey(j) =>
              /\ klog[i].pipeline.obj = klog[j].pipeline.obj
              /\ klog[i].layout.obj = klog[j].layout.obj
    /\ \A i \in 1..Len(klog) : CompilesFor(LogKey(i)) <= 1

\* C27 (amended): in any interleaving of get calls from several threads, a
\* call that finds its key in the cache compiles nothing and returns the
\* reference-identical pipeline and layout of the entry last inserted under
\* that key; a call that misses returns the pair it compiled itself, so calls
\* that overlap may return different pairs; and the shader is compiled at
\* most once per calling thread for a key.
C27_HitReturnsLastInsert ==
    /\ \A i \in 1..Len(klog) :
          IF klog[i].built
          THEN \A j \in 1..Len(klog) :
                  (j # i /\ klog[j].built) =>
                      /\ klog[j].pipeline.obj # klog[i].pipeline.obj
                      /\ klog[j].layout.obj # klog[i].layout.obj
          ELSE /\ InsertsBefore(i) # {}
               /\ klog[i].pipeline = klog[Latest(InsertsBefore(i))].pipeline
               /\ klog[i].layout = klog[Latest(InsertsBefore(i))].layout
    /\ \A i \in 1..Len(klog) : CompilesFor(LogKey(i)) <= NumThreads
    /\ \A t \in Threads :
          kpc[t] = "insert" => CompilesFor(kcall[t].key) <= NumThreads

\* two threads missed the same key and both compiled; a later call found the
\* entry of the thread that inserted last
C27_Witness ==
    /\ Len(klog) = 3
    /\ LogKey(1) = LogKey(2) /\ LogKey(2) = LogKey(3)
    /\ klog[1].built /\ klog[2].built /\ ~klog[3].built
    /\ klog[1].pipeline.obj # klog[2].pipeline.obj
    /\ klog[3].pipeline = klog[2].pipeline
    /\ compiles = 2

\* no get call on the key is between its lookup and its insert, and an entry
\* is cached under it
Settled(key) ==
    /\ key \in DOMAIN cache
    /\ \A t \in Threads : kpc[t] # "idle" => kcall[t].key # key

\* the keys under which finished calls inserted
InsertedKeys == { LogKey(i) : i \in { j \in 1..Len(klog) : klog[j].built } }

\* C28: in any interleaving of concurrent get calls, each call returns a
\* pipeline together with the layout it was compiled against; the cache
\* holds one entry per key inserted under, however many builds were made for
\* the key, and the entry is the pair of one of those builds; and once no
\* call for a cached key is in flight, the entry under the key stays the
\* same and every later get for the key returns it, compiling nothing.
C28_LastWriteWinsBenign ==
    /\ [](\A i \in 1..Len(klog) : klog[i].pipeline.layout = klog[i].layout.obj)
    /\ [](/\ DOMAIN cache = InsertedKeys
          /\ \A k \in DOMAIN cache :
                /\ cache[k].pipeline.layout = cache[k].layout.obj
                /\ \E i \in 1..Len(klog) :
                      /\ klog[i].built /\ LogKey(i) = k
                      /\ klog[i].pipeline = cache[k].pipeline
                      /\ klog[i].layout = cache[k].layout)
    /\ [][ \A k \in DOMAIN cache :
             Settled(k) =>
                /\ k \in DOMAIN cache' /\ cache'[k] = cache[k]
                /\ \A t \in Threads : kpc'[t] # "idle" => kcall'[t].key # k
                /\ \A i \in (Len(klog) + 1)..Len(klog') :
                      KernelKey(klog'[i].args.src, klog'[i].args.entry,
                                klog'[i].args.t_in, klog'[i].args.t_out,
                                klog'[i].args.p_len) = k =>
                          /\ ~klog'[i].built
                          /\ klog'[i].pipeline = cache[k].pipeline
                          /\ klog'[i].layout = cache[k].layout
         ]_vars

\* two threads raced on a key and both inserted; every call has returned and
\* a later call got the entry that stayed in the cache
C28_Witness ==
    /\ KernelIdle
    /\ Len(klog) = 3
    /\ klog[1].args = klog[2].args /\ klog[2].args = klog[3].args
    /\ klog[1].built /\ klog[2].built /\ ~klog[3].built
    /\ compiles = 2 /\ Cardinality(DOMAIN cache) = 1
    /\ cache[LogKey(3)].layout = klog[3].layout
    /\ klog[3].layout.obj # klog[1].layout.obj

(***************************************************************************)
(* Properties of the transfers, step by step                               *)
(***************************************************************************)
\* the staging buffer of the transfer in progress, before and after the step
UploadStaging == staging_upload.entries[call.sid].buffer
DownloadStaging == staging_download.entries[call.sid].buffer

\* C29: write_to_buffer allocates an upload-staging buffer of exactly the
\* byte length of the data, maps it and copies the data in, unmaps it,
\* submits the copy from the staging buffer to dest_id, and releases the
\* staging buffer, in this order: the copy is submitted with the staging
\* buffer unmapped and still in its pool, and the staging buffer leaves its
\* pool only after the copy.  download_raw submits the copy into its
\* staging buffer, maps it and reads it, unmaps it, and releases it.
C29_TransferStepOrder ==
    [][ /\ (pc = "idle" /\ pc' = "w_map") =>
              /\ call'.sid \notin DOMAIN staging_upload.entries
              /\ call'.sid \in DOMAIN staging_upload'.entries
              /\ staging_upload'.entries[call'.sid].size =
                    Len(cast_slice(call'.dtype, call'.data))
              /\ staging_upload'.entries[call'.sid].buffer.size =
                    Len(cast_slice(call'.dtype, call'.data))
              /\ ~staging_upload'.entries[call'.sid].buffer.mapped
              /\ main_pool' = main_pool
        /\ pc = "w_map" =>
              /\ pc' = "w_unmap"
              /\ ~UploadStaging.mapped /\ UploadStaging'.mapped
              /\ UploadStaging'.data = cast_slice(call.dtype, call.data)
              /\ main_pool' = main_pool
        /\ pc = "w_unmap" =>
              /\ pc' = "w_copy"
              /\ UploadStaging.mapped /\ ~UploadStaging'.mapped
              /\ UploadStaging'.data = UploadStaging.data
              /\ main_pool' = main_pool
        /\ pc = "w_copy" =>
              /\ pc' \in {"w_release", "panicked"}
              /\ call.sid \in DOMAIN staging_upload.entries
              /\ ~UploadStaging.mapped
              /\ staging_upload' = staging_upload
              /\ pc' = "w_release" =>
                    /\ call.id \in DOMAIN main_pool'.entries
                    /\ \A i \in 1..Len(call.bytes) :
                          main_pool'.entries[call.id].buffer.data[i] = UploadStaging.data[i]
              /\ pc' = "panicked" => main_pool' = main_pool
        /\ pc = "w_release" =>
              /\ pc' = "idle"
              /\ ret'.op = "write_to_buffer" /\ ret'.kind = "Ok"
              /\ main_pool' = main_pool
        /\ (DOMAIN staging_upload'.entries # DOMAIN staging_upload.entries
            /\ DOMAIN staging_upload'.entries \subseteq DOMAIN staging_upload.entries) =>
              /\ pc = "w_release"
              /\ DOMAIN staging_upload'.entries = DOMAIN staging_upload.entries \ {call.sid}
        /\ (pc = "idle" /\ pc' = "d_copy") =>
              /\ call'.sid \notin DOMAIN staging_download.entries
              /\ call'.sid \in DOMAIN staging_download'.entries
              /\ staging_download'.entries[call'.sid].size =
                    main_pool.entries[call'.id].size
              /\ main_pool' = main_pool
        /\ pc = "d_copy" =>
              /\ pc' = "d_map"
              /\ ~DownloadStaging.mapped /\ ~DownloadStaging'.mapped
              /\ DownloadStaging'.data = main_pool.entries[call.id].buffer.data
              /\ main_pool' = main_pool
        /\ pc = "d_map" =>
              /\ pc' = "d_unmap"
              /\ DownloadStaging'.mapped
              /\ call'.bytes = main_pool.entries[call.id].buffer.data
              /\ main_pool' = main_pool
        /\ pc = "d_unmap" =>
              /\ pc' = "d_release"
              /\ DownloadStaging.mapped /\ ~DownloadStaging'.mapped
              /\ main_pool' = main_pool
        /\ pc = "d_release" =>
              /\ pc' = "idle"
              /\ ret'.op = "download_raw" /\ ret'.kind = "Ok"
              /\ call.sid \notin DOMAIN staging_download'.entries
              /\ main_pool' = main_pool
        /\ (DOMAIN staging_download'.entries # DOMAIN staging_download.entries
            /\ DOMAIN staging_download'.entries \subseteq DOMAIN staging_download.entries) =>
              /\ pc = "d_release"
              /\ DOMAIN staging_download'.entries =
                    DOMAIN staging_download.entries \ {call.sid}
      ]_vars

\* a download is at its last step, its staging buffer read and unmapped,
\* after an upload went through all of its steps
C29_Witness ==
    /\ pc = "d_release"
    /\ ~DownloadStaging.mapped
    /\ call.bytes = DownloadStaging.data
    /\ ret.op = "write_to_buffer" /\ ret.kind = "Ok"
    /\ call.id \in DOMAIN written

(***************************************************************************)
(* Properties of the add shader                                            *)
(***************************************************************************)
\* the elements of one step along axis d of the view's shape, row-major: the
\* product of the axes to its right
DimsRightOf(v, d) ==
    ShapeProduct([ k \in 1..(v.ndim - d) |-> v.shape[d + k] ], v.ndim - d)

\* the coordinate of the linear index i along axis d, row-major
Coord(i, v, d) == (i \div DimsRightOf(v, d)) % v.shape[d]

RECURSIVE StridedSum(_, _, _)
\* the sum over the axes 1..d of coordinate times stride
StridedSum(i, v, d) ==
    IF d = 0 THEN 0 ELSE Coord(i, v, d) * v.strides[d] + StridedSum(i, v, d - 1)

\* C30: for every operand view of the output's shape and every work item
\* i < total_elems, the offset the add shader computes for the operand is
\* view.offset + the sum over the axes d of coord_d(i) * strides[d], coord(i)
\* the row-major multi-index of i; along an axis of stride 0 every
\* coordinate reads the same element; the work item stores A[ai] + B[bi] at
\* C[ci] and nothing else, and a work item with i >= total_elems stores
\* nothing.
C30_StridedAddressing ==
    fcall.op = "add_strided" =>
        LET i == fcall.arg.i
            M == fcall.arg.M
            r == fcall.val
        IN  IF i < M.total_elems
            THEN /\ r.ai = M.a.offset + StridedSum(i, M.a, M.a.ndim)
                 /\ r.bi = M.b.offset + StridedSum(i, M.b, M.b.ndim)
                 /\ r.ci = M.c.offset + StridedSum(i, M.c, M.c.ndim)
                 /\ \A v \in {M.a, M.b, M.c} : \A d \in 1..v.ndim :
                       v.strides[d] = 0 =>
                          \A j \in 0..(M.total_elems - 1) :
                             (\A e \in (1..v.ndim) \ {d} : Coord(j, v, e) = Coord(i, v, e))
                                => linear_to_offsets(j, v) = linear_to_offsets(i, v)
                 /\ r.C = [ ArrayC EXCEPT ![r.ci + 1] =
                                f32_add(ArrayA[r.ai + 1], ArrayB[r.bi + 1]) ]
                 /\ r.C[r.ci + 1] # UnspecElem
            ELSE r.C = ArrayC

\* a work item in the second half of a broadcast axis of a three-axis
\* operand whose other axes are strided, the second operand one element
C30_Witness ==
    /\ fcall.op = "add_strided"
    /\ fcall.arg.i < fcall.arg.M.total_elems
    /\ fcall.arg.M.a.ndim = 3
    /\ fcall.arg.M.a.shape[2] = 2 /\ fcall.arg.M.a.strides[2] = 0
    /\ Coord(fcall.arg.i, fcall.arg.M.a, 2) = 1
    /\ fcall.arg.M.a.strides[1] = 1 /\ fcall.arg.M.a.strides[3] = 2
    /\ Coord(fcall.arg.i, fcall.arg.M.a, 3) = 1
    /\ fcall.arg.M.b.strides[1] = 0 /\ fcall.arg.M.b.offset = 1
    /\ fcall.val.ai = fcall.arg.M.a.offset + 2
    /\ fcall.val.ci = fcall.arg.i

(***************************************************************************)
(* Properties of a buffer pool called directly                             *)
(***************************************************************************)
\* C31: with the id counter a w-bit integer that wraps, in every sequence of
\* get_buffer and release_buffer calls (longer than 2^w allocations too) a
\* get_buffer call never returns an id that is live in the pool at that
\* moment, and never replaces or drops an existing live entry.
C31_NoReuseOnWrap ==
    [][ bpool'.next_id # bpool.next_id =>
          /\ bret'.op = "get_buffer"
          /\ bret'.val \notin DOMAIN bpool.entries
          /\ \A k \in DOMAIN bpool.entries :
                /\ k \in DOMAIN bpool'.entries
                /\ bpool'.entries[k] = bpool.entries[k]
      ]_vars

\* every stored entry has a count of at least 1, and it is 1 + the inc_ref
\* calls - the dec_ref calls made on it since get_buffer minted it
CountsTracked ==
    \A id \in DOMAIN bpool.entries :
        /\ bpool.entries[id].ref_count >= 1
        /\ bhist[id].state = "live"
        /\ bpool.entries[id].ref_count = bhist[id].count

\* a dec_ref call on a stored entry removes it exactly when its count was 1
DecRefAtZero ==
    (bpool' # bpool /\ bret'.op = "dec_ref") =>
        /\ bret'.arg \in DOMAIN bpool.entries
        /\ bret'.kind = "Ok"
        /\ bret'.arg \notin DOMAIN bpool'.entries <=> bpool.entries[bret'.arg].ref_count = 1
        /\ bret'.arg \in DOMAIN bpool'.entries =>
              bpool'.entries[bret'.arg].ref_count = bpool.entries[bret'.arg].ref_count - 1

\* C32 (as stated): every stored entry has ref_count >= 1 (1 after
\* get_buffer, +1 per inc_ref, -1 per dec_ref), dec_ref removes the entry
\* exactly when the count drops to 0, and no operation, release_buffer
\* included, removes an entry whose count has not dropped to 0.
C32_ReclaimOnlyAtZero ==
    /\ []CountsTracked
    /\ [][DecRefAtZero]_vars
    /\ [][ \A id \in DOMAIN bpool.entries :
             id \notin DOMAIN bpool'.entries =>
                 /\ bret'.op = "dec_ref" /\ bret'.arg = id
                 /\ bpool.entries[id].ref_count = 1 ]_vars

\* C32 (amended): every stored entry has ref_count >= 1 (1 after get_buffer,
\* +1 per inc_ref, -1 per dec_ref), dec_ref removes the entry exactly when
\* the count drops to 0, and inc_ref and dec_ref remove no entry whose count
\* has not dropped to 0; release_buffer removes the entry whatever its count,
\* and nothing else removes an entry.
C32_ReleaseIgnoresCount ==
    /\ []CountsTracked
    /\ [][DecRefAtZero]_vars
    /\ [][ \A id \in DOMAIN bpool.entries :
             id \notin DOMAIN bpool'.entries =>
                 \/ /\ bret'.op = "dec_ref" /\ bret'.arg = id
                    /\ bpool.entries[id].ref_count = 1
                 \/ bret'.op = "release_buffer" /\ bret'.arg = id ]_vars
    /\ [][ bret'.op = "release_buffer" => bret'.arg \notin DOMAIN bpool'.entries ]_vars

\* release_buffer has removed an entry whose count was 2, after a dec_ref
\* removed another at count 1, while a third entry has count 2
C32_Witness ==
    /\ bret.op = "release_buffer"
    /\ bhist[bret.arg].state = "released" /\ bhist[bret.arg].count = 2
    /\ \E id \in PoolIds : bhist[id].state = "dropped"
    /\ \E id \in DOMAIN bpool.entries : bpool.entries[id].ref_count = 2

\* C33: inc_ref and dec_ref on an id that is not in the pool (never minted,
\* released, or removed by the dec_ref that reached zero) return an error
\* and leave the entries, their counts and the id counter as they were; on an
\* id that is in the pool they return Ok.
C33_RefOnMissingId ==
    [][ bret'.op \in {"inc_ref", "dec_ref"} =>
          IF bret'.arg \in DOMAIN bpool.entries
          THEN bret'.kind = "Ok"
          ELSE /\ bret'.kind = "Err"
               /\ bpool'.entries = bpool.entries
               /\ bpool'.next_id = bpool.next_id
               /\ bhist' = bhist
      ]_vars

\* a second dec_ref on an id whose entry the first one removed has returned
\* an error, beside a released id, a never-minted id and an entry of count 2
C33_Witness ==
    /\ bret.op = "dec_ref" /\ bret.kind = "Err"
    /\ bhist[bret.arg].state = "dropped"
    /\ \E id \in PoolIds : bhist[id].state = "released"
    /\ \E id \in PoolIds : bhist[id].state = "none"
    /\ \E id \in DOMAIN bpool.entries : bpool.entries[id].ref_count = 2

\* C36: get_buffer_size(id) returns the byte size passed to the get_buffer
\* call that minted id for as long as id is live, and None for every id that
\* is unknown or has been released; the size of a live entry never changes.
C36_SizeOfLiveId ==
    /\ [](bret.op = "get_buffer_size" =>
             IF bhist[bret.arg].state = "live"
             THEN bret.kind = "Some" /\ bret.val = bhist[bret.arg].size
             ELSE bret.kind = "None")
    /\ [][ \A id \in DOMAIN bpool.entries :
             id \in DOMAIN bpool'.entries =>
                 bpool'.entries[id].size = bpool.entries[id].size ]_vars

(***************************************************************************)
(* Properties of the transfers and the resident pool                       *)
(***************************************************************************)
\* C34: no step of write_to_buffer(dest, d) or download_raw(src) changes
\* the set of live main-pool ids, their recorded sizes or the id counter,
\* and none changes a main-pool buffer other than dest (a download changes
\* none); the release of a staging id that is numerically equal to a live
\* main-pool id leaves the main pool as it was.
C34_TransfersKeepMainPool ==
    [][ (pc # "idle" \/ pc' # "idle") =>
          LET c == IF pc = "idle" THEN call' ELSE call IN
          /\ DOMAIN main_pool'.entries = DOMAIN main_pool.entries
          /\ main_pool'.next_id = main_pool.next_id
          /\ \A k \in DOMAIN main_pool.entries :
                /\ main_pool'.entries[k].size = main_pool.entries[k].size
                /\ main_pool'.entries[k].buffer.size = main_pool.entries[k].buffer.size
                /\ k # c.id => main_pool'.entries[k] = main_pool.entries[k]
          /\ c.op = "download_raw" => main_pool' = main_pool
          /\ pc \in {"w_release", "d_release"} => main_pool' = main_pool
      ]_vars

\* an upload into main buffer 1 has finished; its staging buffer had id 0,
\* the id of another live main buffer, and was released
C34_Witness ==
    /\ pc = "idle"
    /\ ret.op = "write_to_buffer" /\ ret.kind = "Ok" /\ ret.arg[1] = 1
    /\ minted.upload = <<0>>
    /\ staging_upload.entries = << >>
    /\ DOMAIN main_pool.entries = {0, 1}
    /\ 1 \in DOMAIN written

(***************************************************************************)
(* Properties of re-registration                                           *)
(***************************************************************************)
\* what a lookup of the name resolves to by the registrations made so far
LastRegistered(name) ==
    IF name \in DOMAIN registered
    THEN [ kind |-> "Some", op |-> registered[name].op ]
    ELSE [ kind |-> "None" ]

\* the names whose entry a step adds or changes
Touched ==
    { n \in DOMAIN reg_map' : n \notin DOMAIN reg_map \/ reg_map'[n] # reg_map[n] }

\* C37: registering under a name already present replaces the operation
\* under it: the registry holds one operation per name registered, the one
\* registered last; check_and_prepare and get resolve a name to it; and a
\* registration never removes or alters the entry of another name.
C37_LatestRegistration ==
    /\ [] /\ DOMAIN reg_map = DOMAIN registered
          /\ \A n \in DOMAIN reg_map : reg_map[n] = registered[n].op
          /\ gret.called => gret.result = LastRegistered(gret.name)
          /\ rret.called =>
                LET l == LastRegistered(rret.name)
                    r == rret.result
                IN  /\ r.kind = "UnknownOp" <=> l.kind = "None"
                    /\ r.kind = "Ok" =>
                          r.prepared = prepare(l.op, rret.inputs, rret.outputs)
                    /\ r.kind = "ArityMismatch" =>
                          \/ r.expected = l.op.sig.num_inputs
                             /\ r.found = Len(rret.inputs)
                             /\ r.found # r.expected
                          \/ r.expected = l.op.sig.num_outputs
                             /\ r.found = Len(rret.outputs)
                             /\ r.found # r.expected
                    /\ r.kind = "DtypeMismatch" =>
                          \/ r.index + 1 \in DOMAIN l.op.sig.input_dtypes
                             /\ r.expected = l.op.sig.input_dtypes[r.index + 1]
                          \/ r.index + 1 \in DOMAIN l.op.sig.output_dtypes
                             /\ r.expected = l.op.sig.output_dtypes[r.index + 1]
    /\ [][ /\ DOMAIN reg_map \subseteq DOMAIN reg_map'
           /\ Cardinality(Touched) <= 1
           /\ \A n \in DOMAIN reg_map :
                 (n \in DOMAIN registered' /\ registered'[n] = registered[n])
                    => reg_map'[n] = reg_map[n]
         ]_vars

\* "plus" was registered as AddOp and then as SplitOp, next to "add", and both a
\* get and a successful check_and_prepare of "plus" resolved to SplitOp
C37_Witness ==
    /\ "plus" \in DOMAIN registered
    /\ registered["plus"].replaced
    /\ registered["plus"].op.impl = "SplitOp"
    /\ "add" \in DOMAIN reg_map
    /\ gret.called /\ gret.name = "plus" /\ gret.result.kind = "Some"
    /\ gret.result.op.impl = "SplitOp"
    /\ rret.called /\ rret.name = "plus" /\ rret.result.kind = "Ok"

(***************************************************************************)
(* Properties of a download after a shorter write                          *)
(***************************************************************************)
\* a download_raw call has just returned a vector
Downloaded ==
    pc = "idle" /\ ret.op = "download_raw" /\ ret.kind = "Ok"

\* C38: download_raw(id) returns the whole buffer: as many bytes as the
\* allocate_raw call that created id asked for, however many were written,
\* and they are the buffer's; write_to_buffer(id, d) with d shorter than the
\* buffer sets the first len(d) bytes to d and leaves the others as they were.
C38_WholeBuffer ==
    /\ [] (Downloaded =>
             LET id  == ret.arg[1]
                 dt  == ret.arg[2]
                 e   == main_pool.entries[id]
             IN  /\ Len(ret.val) * size_in_bytes(dt) = e.size
                 /\ \A i \in 1..Len(ret.val) :
                       ret.val[i] =
                          BytesWord(dt, SubSeq(e.buffer.data, 4 * (i - 1) + 1, 4 * i))
                 /\ (id \in DOMAIN written
                       /\ Len(written[id].data) <= Len(ret.val)) =>
                         cast_slice(dt, SubSeq(ret.val, 1, Len(written[id].data)))
                            = cast_slice(written[id].dtype, written[id].data))
    /\ [][ /\ main_pool'.next_id # main_pool.next_id =>
                /\ ret'.op = "allocate_raw"
                /\ main_pool'.entries[ret'.val].size = ret'.arg[1]
                /\ Len(main_pool'.entries[ret'.val].buffer.data) = ret'.arg[1]
           /\ \A k \in DOMAIN main_pool.entries \cap DOMAIN main_pool'.entries :
                 main_pool'.next_id = main_pool.next_id =>
                    /\ main_pool'.entries[k].size = main_pool.entries[k].size
                    /\ Len(main_pool'.entries[k].buffer.data)
                          = Len(main_pool.entries[k].buffer.data)
           /\ (pc = "w_copy" /\ pc' = "w_release") =>
                LET old == main_pool.entries[call.id].buffer.data
                    new == main_pool'.entries[call.id].buffer.data
                    n   == Len(call.data) * size_in_bytes(call.dtype)
                IN  /\ n <= Len(old)
                    /\ SubSeq(new, 1, n) = cast_slice(call.dtype, call.data)
                    /\ \A i \in (n + 1)..Len(old) : new[i] = old[i]
         ]_vars

\* a buffer of 8 bytes was written with two f32, then with one i32, and a
\* download as f32 returned two elements: the bits of the i32, then the second
\* f32 of the first write
C38_Witness ==
    /\ Downloaded
    /\ ret.arg[2] = "F32"
    /\ ret.arg[1] \in DOMAIN written
    /\ written[ret.arg[1]].data = << Element("I32", 1) >>
    /\ main_pool.entries[ret.arg[1]].size = 8
    /\ ret.val = << Element("I32", 1), Element("F32", 2) >>

(***************************************************************************)
(* Properties of the dispatch arithmetic                                   *)
(***************************************************************************)
\* C35: the dispatch arithmetic is exact in the word: for every view whose
\* true element count fits the word, the product run_gpu_task and
\* AddOp::prepare compute is the true product, and for every total of the
\* word, the ends included, (total + 64 - 1) / 64 is the least g with
\* g * 64 >= total, with no overflow.
C35_DispatchArithmeticExact ==
    /\ fcall.op = "dispatch_size_1d" =>
          /\ fcall.kind = "Ok"
          /\ fcall.val = CeilGroups(fcall.arg.total)
    /\ (/\ fcall.op \in {"run_gpu_task", "AddOp::prepare"}
        /\ ShapeProduct(fcall.arg.view.shape, fcall.arg.view.ndim) < 2 ^ WordBits) =>
          /\ fcall.kind = "Ok"
          /\ fcall.val = ShapeProduct(fcall.arg.view.shape, fcall.arg.view.ndim)

====
